---- MODULE Spec2Model ----
(***************************************************************************)
(* Sliding-window 2D convolution of the notebook "Speeding up Convolution":*)
(* filter_image / filter_images_v1 (per image), filter_images_v2 (batched) *)
(* and filter_images_v3 (scalarized).  Arrays are numpy arrays: a shape    *)
(* and one integer per index tuple.  A call either returns an array or     *)
(* raises; the exception raised is part of the call's result.              *)
(***************************************************************************)
EXTENDS Integers, Sequences, FiniteSets, TLC

\* ------------------------------------------------------------------ bounds
MaxBatch == 2
MaxH == 3
MaxW == 2
MaxStride == 2
MaxChan == 2
MaxCalls == 2
MaxFrames == 1
MaxEpochs == 3
MaxSamples == 2

\* ------------------------------------------------------- python and numpy
\* Python's a // b (floor division), b # 0.
FloorDiv(a, b) ==
  IF b > 0 THEN a \div b ELSE (0 - a) \div (0 - b)

\* len(range(start, stop, step)), step # 0.
RangeLen(start, stop, step) ==
  IF step > 0
    THEN IF start < stop THEN 1 + FloorDiv(stop - 1 - start, step) ELSE 0
    ELSE IF start > stop THEN 1 + FloorDiv(start - 1 - stop, 0 - step) ELSE 0

\* The range that advances by one whatever its step.
PyRangeUnit(start, stop, step) ==
  [k \in 1..RangeLen(start, stop, step) |-> start + (k - 1)]

\* list(range(start, stop, step)) as a sequence; enumerate() pairs the k-th
\* element (k from 0) with k, so PyRange(..)[k + 1] is the value paired with k.
PyRange(start, stop, step) ==
  [k \in 1..RangeLen(start, stop, step) |-> start + (k - 1) * step]

\* The index tuples of an array of the given shape (ranks 1, 3 and 4).
IndexSet(shape) ==
  CASE Len(shape) = 1 -> {<<i>> : i \in 0..(shape[1] - 1)}
    [] Len(shape) = 3 ->
         (0..(shape[1] - 1)) \X (0..(shape[2] - 1)) \X (0..(shape[3] - 1))
    [] Len(shape) = 4 ->
         (0..(shape[1] - 1)) \X (0..(shape[2] - 1)) \X (0..(shape[3] - 1))
           \X (0..(shape[4] - 1))
    [] OTHER -> {}

MkArray(shape, data) == [shape |-> shape, data |-> data]

NoArray == MkArray(<<>>, [t \in {} |-> 0])

\* np.zeros(shape) for a shape without negative entries.
zeros(shape) == MkArray(shape, [t \in IndexSet(shape) |-> 0])

RECURSIVE SumOver(_, _)
\* The sum of f over the finite set S of its arguments.
SumOver(f, S) ==
  IF S = {} THEN 0
  ELSE LET t == CHOOSE u \in S : TRUE
       IN f[t] + SumOver(f, S \ {t})

\* The bounds slice a:b takes on an axis of length n (both given, step 1):
\* negative bounds count from the end, then both are clipped to 0..n.
SliceBound(a, n) ==
  LET b == IF a < 0 THEN a + n ELSE a
  IN IF b < 0 THEN 0 ELSE IF b > n THEN n ELSE b

\* The length of a slice that takes its upper bound too: a:b+1.
SliceLenInclusive(a, b, n) ==
  IF SliceBound(b + 1, n) > SliceBound(a, n)
    THEN SliceBound(b + 1, n) - SliceBound(a, n) ELSE 0

SliceLen(a, b, n) ==
  IF SliceBound(b, n) > SliceBound(a, n)
    THEN SliceBound(b, n) - SliceBound(a, n) ELSE 0

\* numpy broadcasting of two axes: equal lengths, or one of them is 1.
BroadcastOk(m, n) == m = n \/ m = 1 \/ n = 1

BroadcastDim(m, n) == IF m = 1 THEN n ELSE m

\* The index an operand of axis length n contributes at result index i.
BroadcastIdx(i, n) == IF n = 1 THEN 0 ELSE i

\* The outcome of a function: an array returned, or an exception raised.
\* reads: the index tuples of the image argument the function has read;
\* windows: the chunks it has taken, each as <<first row, first column,
\* number of rows, number of columns>> within its image.
Return(y, reads, windows) ==
  [status |-> "ok", error |-> "", y |-> y, reads |-> reads, windows |-> windows]

Raise(kind) ==
  [status |-> "error", error |-> kind, y |-> NoArray, reads |-> {},
   windows |-> {}]

\* What a call leaves behind: its outcome, and the bias argument as it is
\* after the call (the one argument that is an operand of an in-place
\* statement, y += biases).
Leave(out, biases) == [out |-> out, biases |-> biases]

\* The item taken from the other end of the batch: batch[-1 - n].
ItemFromEnd(batch, n) ==
  LET s == <<batch.shape[2], batch.shape[3], batch.shape[4]>>
  IN MkArray(s, [t \in IndexSet(s) |->
                   batch.data[<<batch.shape[1] - 1 - n, t[1], t[2], t[3]>>]])

\* image = batch[n]: iterating a rank-4 array yields its rank-3 items.
Item(batch, n) ==
  LET s == <<batch.shape[2], batch.shape[3], batch.shape[4]>>
  IN MkArray(s, [t \in IndexSet(s) |-> batch.data[<<n, t[1], t[2], t[3]>>]])

\* filters[:,:,:,channel]
FilterSlice(filters, channel) ==
  LET s == <<filters.shape[1], filters.shape[2], filters.shape[3]>>
  IN MkArray(s, [t \in IndexSet(s) |->
                   filters.data[<<t[1], t[2], t[3], channel>>]])

\* The chunk of image[ix+1:ix+1+km, jx:jx+kn, :], one row too low.
ChunkShifted(image, ix, km, jx, kn) ==
  LET r0 == SliceBound(ix + 1, image.shape[1])
      c0 == SliceBound(jx, image.shape[2])
      s == <<SliceLen(ix + 1, ix + 1 + km, image.shape[1]),
             SliceLen(jx, jx + kn, image.shape[2]), image.shape[3]>>
  IN [shape |-> s, origin |-> <<r0, c0>>,
      data |-> [t \in IndexSet(s) |-> image.data[<<r0 + t[1], c0 + t[2], t[3]>>]]]

\* image[ix:ix+km, jx:jx+kn, :] for a rank-3 image; origin is the image index
\* of the chunk's element (0, 0, 0).
Chunk(image, ix, km, jx, kn) ==
  LET r0 == SliceBound(ix, image.shape[1])
      c0 == SliceBound(jx, image.shape[2])
      s == <<SliceLen(ix, ix + km, image.shape[1]),
             SliceLen(jx, jx + kn, image.shape[2]), image.shape[3]>>
  IN [shape |-> s, origin |-> <<r0, c0>>,
      data |-> [t \in IndexSet(s) |-> image.data[<<r0 + t[1], c0 + t[2], t[3]>>]]]

\* The window of the image a chunk is.
ChunkWindow(chunk) ==
  <<chunk.origin[1], chunk.origin[2], chunk.shape[1], chunk.shape[2]>>

\* The image indices a chunk covers.
ChunkIndices(chunk) ==
  {<<chunk.origin[1] + t[1], chunk.origin[2] + t[2], t[3]>> :
     t \in IndexSet(chunk.shape)}

\* Whether a * b broadcasts, for rank-3 operands.
MulOk(a, b) ==
  \A k \in 1..3 : BroadcastOk(a.shape[k], b.shape[k])

\* np.sum(a + b): the operands added where the code multiplies them.
SumProdAdds(a, b) ==
  LET s == [k \in 1..3 |-> BroadcastDim(a.shape[k], b.shape[k])]
      prod == [t \in IndexSet(s) |->
                 a.data[<<BroadcastIdx(t[1], a.shape[1]),
                          BroadcastIdx(t[2], a.shape[2]),
                          BroadcastIdx(t[3], a.shape[3])>>]
                 + b.data[<<BroadcastIdx(t[1], b.shape[1]),
                            BroadcastIdx(t[2], b.shape[2]),
                            BroadcastIdx(t[3], b.shape[3])>>]]
  IN SumOver(prod, IndexSet(s))

\* np.sum(a * b) for rank-3 operands that broadcast.
SumProd(a, b) ==
  LET s == [k \in 1..3 |-> BroadcastDim(a.shape[k], b.shape[k])]
      prod == [t \in IndexSet(s) |->
                 a.data[<<BroadcastIdx(t[1], a.shape[1]),
                          BroadcastIdx(t[2], a.shape[2]),
                          BroadcastIdx(t[3], a.shape[3])>>]
                 * b.data[<<BroadcastIdx(t[1], b.shape[1]),
                            BroadcastIdx(t[2], b.shape[2]),
                            BroadcastIdx(t[3], b.shape[3])>>]]
  IN SumOver(prod, IndexSet(s))

\* arr + biases[0]: the first bias added to every channel.
AddBiasFirst(arr, biases) ==
  LET r == Len(arr.shape)
      s == [k \in 1..r |->
              IF k = r THEN BroadcastDim(arr.shape[r], biases.shape[1])
              ELSE arr.shape[k]]
  IN MkArray(s, [t \in IndexSet(s) |->
       arr.data[[k \in 1..r |->
                   IF k = r THEN BroadcastIdx(t[r], arr.shape[r]) ELSE t[k]]]
       + biases.data[<<0>>]])

\* Whether arr + biases broadcasts (biases of rank 1, arr of rank >= 1).
AddOk(arr, biases) ==
  BroadcastOk(arr.shape[Len(arr.shape)], biases.shape[1])

\* arr + biases: a new array of the broadcast shape.
AddBias(arr, biases) ==
  LET r == Len(arr.shape)
      s == [k \in 1..r |->
              IF k = r THEN BroadcastDim(arr.shape[r], biases.shape[1])
              ELSE arr.shape[k]]
  IN MkArray(s, [t \in IndexSet(s) |->
       arr.data[[k \in 1..r |->
                   IF k = r THEN BroadcastIdx(t[r], arr.shape[r]) ELSE t[k]]]
       + biases.data[<<BroadcastIdx(t[r], biases.shape[1])>>]])


\* The extent with the off-by-one of 1 + ((xm - km + 1)//sm).
OutExtentPlusOne(x, k, s) == 1 + FloorDiv(x - k + 1, s)

\* ym, yn = 1 + ((xm - km)//sm), 1 + ((xn - kn)//sn)
OutExtent(x, k, s) == 1 + FloorDiv(x - k, s)

\* The window origins of range(0, xm, sm), which run on to the image's edge.
WindowsToEdge(x, k, s) == PyRange(0, x, s)

\* range(0, xm-km+1, sm): the window origins along one axis.
Windows(x, k, s) == PyRange(0, x - k + 1, s)

\* Whether the index tuple t addresses an element of an array of this shape
\* (the indices here come from enumerate() and range(), so none is negative).
InBounds(t, shape) == \A k \in 1..Len(shape) : t[k] >= 0 /\ t[k] < shape[k]

\* The state of a running call: its local array y, the image indices read so
\* far, and the exception raised, if any.
Running(y) ==
  [status |-> "ok", error |-> "", y |-> y, reads |-> {}, windows |-> {}]

Fail(st, kind) == [st EXCEPT !.status = "error", !.error = kind]

\* ----------------------------------------------------------- filter_image
\* The store of np.sum(filters[:,:,:,0] * chunk): the first filter for every
\* output channel.
FilterImageStoreFirstFilter(filters, chunk, iy, jy, channel, st) ==
  IF ~MulOk(FilterSlice(filters, 0), chunk) THEN Fail(st, "ValueError")
  ELSE IF ~InBounds(<<iy, jy, channel>>, st.y.shape) THEN Fail(st, "IndexError")
  ELSE [st EXCEPT
          !.y.data[<<iy, jy, channel>>] = SumProd(FilterSlice(filters, 0), chunk),
          !.reads = @ \cup ChunkIndices(chunk),
          !.windows = @ \cup {ChunkWindow(chunk)}]

\* y[iy,jy,channel] = np.sum(filters[:,:,:,channel] * chunk)
FilterImageStore(filters, chunk, iy, jy, channel, st) ==
  IF ~MulOk(FilterSlice(filters, channel), chunk) THEN Fail(st, "ValueError")
  ELSE IF ~InBounds(<<iy, jy, channel>>, st.y.shape) THEN Fail(st, "IndexError")
  ELSE [st EXCEPT
          !.y.data[<<iy, jy, channel>>] =
             SumProd(FilterSlice(filters, channel), chunk),
          !.reads = @ \cup ChunkIndices(chunk),
          !.windows = @ \cup {ChunkWindow(chunk)}]

RECURSIVE FilterImageChannels(_, _, _, _, _, _)
\* for channel in range(no): ...
FilterImageChannels(filters, chunk, iy, jy, channel, st) ==
  IF st.status # "ok" \/ channel >= filters.shape[4] THEN st
  ELSE FilterImageChannels(filters, chunk, iy, jy, channel + 1,
         FilterImageStore(filters, chunk, iy, jy, channel, st))

RECURSIVE FilterImageCols(_, _, _, _, _, _)
\* for jy, jx in enumerate(range(0, xn-kn+1, sn)): chunk = image[...]; ...
FilterImageCols(image, filters, strides, iy, jy, st) ==
  LET km == filters.shape[1]
      kn == filters.shape[2]
      rows == Windows(image.shape[1], km, strides[1])
      cols == Windows(image.shape[2], kn, strides[2])
  IN IF st.status # "ok" \/ jy >= Len(cols) THEN st
     ELSE FilterImageCols(image, filters, strides, iy, jy + 1,
            FilterImageChannels(filters,
              Chunk(image, rows[iy + 1], km, cols[jy + 1], kn), iy, jy, 0, st))

RECURSIVE FilterImageRows(_, _, _, _, _)
\* for iy, ix in enumerate(range(0, xm-km+1, sm)): ...
FilterImageRows(image, filters, strides, iy, st) ==
  IF st.status # "ok"
       \/ iy >= Len(Windows(image.shape[1], filters.shape[1], strides[1]))
    THEN st
  ELSE FilterImageRows(image, filters, strides, iy + 1,
         FilterImageCols(image, filters, strides, iy, 0, st))

\* filter_image(image, filters, strides) for a rank-3 image.
filter_image(image, filters, strides) ==
  IF strides[1] = 0 \/ strides[2] = 0 THEN Raise("ZeroDivisionError")
  ELSE LET ym == OutExtent(image.shape[1], filters.shape[1], strides[1])
           yn == OutExtent(image.shape[2], filters.shape[2], strides[2])
       IN IF ym < 0 \/ yn < 0 THEN Raise("ValueError")
          ELSE FilterImageRows(image, filters, strides, 0,
                 Running(zeros(<<ym, yn, filters.shape[4]>>)))


\* ------------------------------------------------------- filter_images_v1
\* np.array(outputs) for the list of the per-image outputs (all of one
\* shape); the empty list gives an array of shape (0,).
Stack(outs, n) ==
  IF n = 0 THEN MkArray(<<0>>, [t \in {} |-> 0])
  ELSE LET s == <<n>> \o outs[0].y.shape
       IN MkArray(s, [t \in IndexSet(s) |->
                        outs[t[1]].y.data[<<t[2], t[3], t[4]>>]])

\* filter_images_v1(batch, filters, biases, strides)
filter_images_v1(batch, filters, biases, strides) ==
  LET n == batch.shape[1]
      outs == [i \in 0..(n - 1) |-> filter_image(Item(batch, i), filters, strides)]
      failed == {i \in 0..(n - 1) : outs[i].status # "ok"}
      outputs == Stack(outs, n)
  IN IF failed # {}
       THEN Leave(Raise(outs[CHOOSE i \in failed : \A j \in failed : i <= j].error),
                  biases)
     ELSE IF ~AddOk(outputs, biases) THEN Leave(Raise("ValueError"), biases)
     ELSE Leave(Return(AddBias(outputs, biases),
                  UNION {{<<i>> \o t : t \in outs[i].reads} : i \in 0..(n - 1)},
                  UNION {outs[i].windows : i \in 0..(n - 1)}),
                biases)

\* ----------------------------------------------- filter_images_v2 and _v3
\* The chunk of the first image, taken for every batch item.
BatchChunkFirstItem(images, ix, km, jx, kn) ==
  [i \in 0..(images.shape[1] - 1) |-> Chunk(Item(images, 0), ix, km, jx, kn)]

\* chunk = images[:,ix:ix+km,jx:jx+kn,:], as the chunks of the batch items.
BatchChunk(images, ix, km, jx, kn) ==
  [i \in 0..(images.shape[1] - 1) |-> Chunk(Item(images, i), ix, km, jx, kn)]

\* The shape of images[0,ix:ix+km,jx:jx+kn,:], which the chunk has whatever
\* the batch size.
ChunkShape(images, ix, km, jx, kn) ==
  <<SliceLen(ix, ix + km, images.shape[2]),
    SliceLen(jx, jx + kn, images.shape[3]), images.shape[4]>>

BatchChunkIndices(chunk) ==
  UNION {{<<i>> \o t : t \in ChunkIndices(chunk[i])} : i \in DOMAIN chunk}

\* The in-place addition followed by biases[:] = 0, which clears the
\* caller's bias vector.
AddBiasInPlaceClears(y, biases) ==
  [ok |-> AddOk(y, biases)
            /\ BroadcastDim(y.shape[Len(y.shape)], biases.shape[1])
                 = y.shape[Len(y.shape)],
   y |-> AddBias(y, biases),
   biases |-> zeros(biases.shape)]

\* The in-place addition that also accumulates into its right operand
\* (biases += biases).
AddBiasInPlaceBoth(y, biases) ==
  [ok |-> AddOk(y, biases)
            /\ BroadcastDim(y.shape[Len(y.shape)], biases.shape[1])
                 = y.shape[Len(y.shape)],
   y |-> AddBias(y, biases),
   biases |-> AddBias(biases, biases)]

\* y += biases: in place, so the broadcast shape must be the shape of y.
\* Gives both operands as they are after the statement.
AddBiasInPlace(y, biases) ==
  [ok |-> AddOk(y, biases)
            /\ BroadcastDim(y.shape[Len(y.shape)], biases.shape[1])
                 = y.shape[Len(y.shape)],
   y |-> AddBias(y, biases),
   biases |-> biases]

\* y[:,iy,jy,channel] = np.sum(filters[:,:,:,channel] * chunk, axis=(1,2,3))
V2Store(images, filters, chunk, cshape, iy, jy, channel, st) ==
  IF ~MulOk(FilterSlice(filters, channel), [shape |-> cshape])
    THEN Fail(st, "ValueError")
  ELSE IF ~InBounds(<<iy, jy, channel>>,
                    <<st.y.shape[2], st.y.shape[3], st.y.shape[4]>>)
    THEN Fail(st, "IndexError")
  ELSE [st EXCEPT
          !.y.data = [t \in DOMAIN @ |->
             IF t[2] = iy /\ t[3] = jy /\ t[4] = channel
               THEN SumProd(FilterSlice(filters, channel), chunk[t[1]])
               ELSE @[t]],
          !.reads = @ \cup BatchChunkIndices(chunk),
          !.windows = @ \cup {ChunkWindow(chunk[i]) : i \in DOMAIN chunk}]

RECURSIVE V2Channels(_, _, _, _, _, _, _, _)
\* for channel in range(num_filters): ...
V2Channels(images, filters, chunk, cshape, iy, jy, channel, st) ==
  IF st.status # "ok" \/ channel >= filters.shape[4] THEN st
  ELSE V2Channels(images, filters, chunk, cshape, iy, jy, channel + 1,
         V2Store(images, filters, chunk, cshape, iy, jy, channel, st))

RECURSIVE V3Window(_, _, _, _, _)
\* tmp = 0.0; for h in range(km): for w in range(kn):
\*   for input_chan in range(num_input_channels):
\*     tmp += chunk[item, h, w, input_chan] * filters[h, w, input_chan, output_chan]
\* p counts the iterations done; acc holds tmp and the chunk indices read.
V3Window(chunk, filters, output_chan, p, acc) ==
  LET kn == filters.shape[2]
      ni == filters.shape[3]
      h == p \div (kn * ni)
      w == (p \div ni) % kn
      input_chan == p % ni
  IN IF acc.status # "ok" \/ p >= filters.shape[1] * kn * ni THEN acc
     ELSE V3Window(chunk, filters, output_chan, p + 1,
            IF ~InBounds(<<h, w, input_chan>>, chunk.shape)
              THEN [acc EXCEPT !.status = "error"]
            ELSE [acc EXCEPT
                    !.tmp = @ + chunk.data[<<h, w, input_chan>>]
                                * filters.data[<<h, w, input_chan, output_chan>>],
                    !.reads = @ \cup {<<chunk.origin[1] + h,
                                        chunk.origin[2] + w, input_chan>>}])

\* The store y[item,jy,iy,output_chan] = tmp, row and column exchanged.
V3StoreTransposed(filters, chunk, iy, jy, output_chan, item, st) ==
  LET acc == V3Window(chunk[item], filters, output_chan, 0,
                      [status |-> "ok", tmp |-> 0, reads |-> {}])
  IN IF acc.status # "ok" THEN Fail(st, "IndexError")
     ELSE IF ~InBounds(<<item, jy, iy, output_chan>>, st.y.shape)
       THEN Fail(st, "IndexError")
     ELSE [st EXCEPT
             !.y.data[<<item, jy, iy, output_chan>>] = acc.tmp,
             !.reads = @ \cup {<<item>> \o t : t \in acc.reads},
             !.windows = @ \cup {ChunkWindow(chunk[item])}]

\* tmp = 0.0 ... y[item,iy,jy,output_chan] = tmp
V3Store(filters, chunk, iy, jy, output_chan, item, st) ==
  LET acc == V3Window(chunk[item], filters, output_chan, 0,
                      [status |-> "ok", tmp |-> 0, reads |-> {}])
  IN IF acc.status # "ok" THEN Fail(st, "IndexError")
     ELSE IF ~InBounds(<<item, iy, jy, output_chan>>, st.y.shape)
       THEN Fail(st, "IndexError")
     ELSE [st EXCEPT
             !.y.data[<<item, iy, jy, output_chan>>] = acc.tmp,
             !.reads = @ \cup {<<item>> \o t : t \in acc.reads},
             !.windows = @ \cup {ChunkWindow(chunk[item])}]

RECURSIVE V3Items(_, _, _, _, _, _, _, _)
\* for item in range(batch_size): ...
V3Items(images, filters, chunk, iy, jy, output_chan, item, st) ==
  IF st.status # "ok" \/ item >= images.shape[1] THEN st
  ELSE V3Items(images, filters, chunk, iy, jy, output_chan, item + 1,
         V3Store(filters, chunk, iy, jy, output_chan, item, st))

RECURSIVE V3Channels(_, _, _, _, _, _, _)
\* for output_chan in range(num_filters): ...
V3Channels(images, filters, chunk, iy, jy, output_chan, st) ==
  IF st.status # "ok" \/ output_chan >= filters.shape[4] THEN st
  ELSE V3Channels(images, filters, chunk, iy, jy, output_chan + 1,
         V3Items(images, filters, chunk, iy, jy, output_chan, 0, st))

\* The body of the two window loops: the chunk at window (iy, jy) and the
\* loops over it, of filter_images_v2 (v = 2) or filter_images_v3 (v = 3).
WindowBody(v, images, filters, strides, iy, jy, st) ==
  LET km == filters.shape[1]
      kn == filters.shape[2]
      ix == Windows(images.shape[2], km, strides[1])[iy + 1]
      jx == Windows(images.shape[3], kn, strides[2])[jy + 1]
      chunk == BatchChunk(images, ix, km, jx, kn)
  IN IF v = 2
       THEN V2Channels(images, filters, chunk,
                       ChunkShape(images, ix, km, jx, kn), iy, jy, 0, st)
       ELSE V3Channels(images, filters, chunk, iy, jy, 0, st)

RECURSIVE WindowCols(_, _, _, _, _, _, _)
\* for jy, jx in enumerate(range(0, xn-kn+1, sn)): ...
WindowCols(v, images, filters, strides, iy, jy, st) ==
  IF st.status # "ok"
       \/ jy >= Len(Windows(images.shape[3], filters.shape[2], strides[2]))
    THEN st
  ELSE WindowCols(v, images, filters, strides, iy, jy + 1,
         WindowBody(v, images, filters, strides, iy, jy, st))

RECURSIVE WindowRows(_, _, _, _, _, _)
\* for iy, ix in enumerate(range(0, xm-km+1, sm)): ...
WindowRows(v, images, filters, strides, iy, st) ==
  IF st.status # "ok"
       \/ iy >= Len(Windows(images.shape[2], filters.shape[1], strides[1]))
    THEN st
  ELSE WindowRows(v, images, filters, strides, iy + 1,
         WindowCols(v, images, filters, strides, iy, 0, st))

\* The common frame of filter_images_v2 and filter_images_v3: the output
\* extents, y = np.zeros(...), the convolution step, then y += biases
\* (the loops run only once np.zeros has returned: a range over x - k + 1 < 1
\* is empty whenever an extent is negative).
FilterImages(v, images, filters, biases, strides) ==
  IF strides[1] = 0 \/ strides[2] = 0
    THEN Leave(Raise("ZeroDivisionError"), biases)
  ELSE LET ym == OutExtent(images.shape[2], filters.shape[1], strides[1])
           yn == OutExtent(images.shape[3], filters.shape[2], strides[2])
           st == WindowRows(v, images, filters, strides, 0,
                   Running(zeros(<<images.shape[1], ym, yn, filters.shape[4]>>)))
           sum == AddBiasInPlace(st.y, biases)
       IN IF ym < 0 \/ yn < 0 THEN Leave(Raise("ValueError"), biases)
          ELSE IF st.status # "ok" THEN Leave(Raise(st.error), biases)
          ELSE IF ~sum.ok THEN Leave(Raise("ValueError"), biases)
          ELSE Leave(Return(sum.y, st.reads, st.windows), sum.biases)

\* filter_images_v2(images, filters, biases, strides)
filter_images_v2(images, filters, biases, strides) ==
  FilterImages(2, images, filters, biases, strides)

\* filter_images_v3(images, filters, biases, strides)
filter_images_v3(images, filters, biases, strides) ==
  FilterImages(3, images, filters, biases, strides)


\* ---------------------------------------------------------------- program
\* The caller's arrays (images, filters, biases) and stride pair, the
\* outcome of the latest call (ret), and per variant the outcome of its
\* first call (first); ncalls counts the calls made.  frame holds the local
\* variables of the call that is followed statement by statement.
\* layer_jax is the Conv2D layer of the layer notebook, output_batch_jax the
\* outcome of its latest call and pytree the latest tree_flatten and
\* tree_unflatten; there images, filters, biases and strides are the
\* notebook's globals input_batch, filters, biases and strides.  training
\* holds the local variables of the regression notebook's train.
VARIABLES images, filters, biases, strides, ret, first, ncalls, frame,
          layer_jax, output_batch_jax, pytree, training

vars == <<images, filters, biases, strides, ret, first, ncalls, frame,
          layer_jax, output_batch_jax, pytree, training>>

\* The caller's variables, which only the end of a call changes.
callerVars == <<images, filters, biases, strides, ret, first, ncalls>>

layerVars == <<layer_jax, output_batch_jax, pytree>>

\* The position of index tuple t in an array of the given shape, row-major.
Linear(t, shape) ==
  IF Len(shape) = 1 THEN t[1]
  ELSE t[4] + shape[4] * (t[3] + shape[3] * (t[2] + shape[2] * t[1]))

\* np.random.randn(...): an image batch with a different value at every index.
RandomImages(shape) ==
  MkArray(shape, [t \in IndexSet(shape) |-> 1 + Linear(t, shape)])

\* A filter bank with a different non-zero weight at every index, of both signs.
RandomFilters(shape) ==
  MkArray(shape, [t \in IndexSet(shape) |->
    IF Linear(t, shape) % 2 = 0 THEN 1 + Linear(t, shape)
    ELSE 0 - (1 + Linear(t, shape))])

\* A bias vector with a different value for every channel.
RandomBiases(shape) ==
  MkArray(shape, [t \in IndexSet(shape) |-> 10 * (1 + t[1])])

None ==
  [status |-> "none", error |-> "", y |-> NoArray, reads |-> {}, windows |-> {}]

\* No call is being followed: fn is the variant (0 for none), pc the place
\* in its body, iy and jy the window indices, n the number of images
\* filter_images_v1 has filtered and outs their outputs, st the local array y
\* with the image indices read and the windows taken so far.
NoFrame ==
  [fn |-> 0, pc |-> "none", iy |-> 0, jy |-> 0, n |-> 0, outs |-> <<>>,
   st |-> Running(NoArray)]

\* A name that is not bound (yet): a layer not constructed, a result not
\* computed.
Unbound == [unbound |-> TRUE]

NoPytree == [of |-> Unbound, flat |-> Unbound, restored |-> Unbound]

\* train has not been called.
NoTraining ==
  [pc |-> "none", X |-> <<>>, y |-> <<>>, lr |-> <<0, 1>>, num_epochs |-> 0,
   i |-> 0, params |-> Unbound, loss_i |-> <<0, 1>>, grad_params_i |-> Unbound,
   loss_vals |-> <<>>, updates |-> 0]

\* Nothing of the layer notebook's Conv2D cells or of train has run.
Elsewhere ==
  /\ layer_jax = Unbound
  /\ output_batch_jax = None
  /\ pytree = NoPytree
  /\ training = NoTraining

Init ==
  /\ \E n \in 0..MaxBatch, xm \in 1..MaxH, xn \in 1..MaxW, xc \in 1..MaxChan :
       images = RandomImages(<<n, xm, xn, xc>>)
  /\ \E km \in 1..MaxH, kn \in 1..MaxW, ni \in 1..MaxChan, no \in 1..MaxChan :
       filters = RandomFilters(<<km, kn, ni, no>>)
  /\ \E nb \in 1..(MaxChan + 1) : biases = RandomBiases(<<nb>>)
  /\ strides \in (1..MaxStride) \X (1..MaxStride)
  /\ ret = [fn |-> 0, out |-> None]
  /\ first = [v \in 1..3 |-> None]
  /\ ncalls = 0
  /\ frame = NoFrame
  /\ Elsewhere

\* A call of variant v has left the record call.
Called(v, call) ==
  /\ ncalls < MaxCalls
  /\ ncalls' = ncalls + 1
  /\ ret' = [fn |-> v, out |-> call.out]
  /\ biases' = call.biases
  /\ first' = IF first[v] = None THEN [first EXCEPT ![v] = call.out] ELSE first
  /\ UNCHANGED <<images, filters, strides>>

\* outputs_v1 = filter_images_v1(inputs, filters, biases, strides)
CallV1 ==
  /\ Called(1, filter_images_v1(images, filters, biases, strides))
  /\ UNCHANGED <<frame, layerVars, training>>

\* outputs_v2 = filter_images_v2(inputs, filters, biases, strides)
CallV2 ==
  /\ Called(2, filter_images_v2(images, filters, biases, strides))
  /\ UNCHANGED <<frame, layerVars, training>>

\* outputs_v3 = filter_images_v3(inputs, filters, biases, strides)
CallV3 ==
  /\ Called(3, filter_images_v3(images, filters, biases, strides))
  /\ UNCHANGED <<frame, layerVars, training>>

Next == CallV1 \/ CallV2 \/ CallV3

Spec == Init /\ [][Next]_vars


\* ------------------------------------------------------------- properties
\* The shapes of the caller's arrays.
Batch == images.shape[1]
H == images.shape[2]
W == images.shape[3]
ImageChans == images.shape[4]
kH == filters.shape[1]
kW == filters.shape[2]
Cin == filters.shape[3]
Cout == filters.shape[4]
sH == strides[1]
sW == strides[2]
BiasLen == biases.shape[1]

\* A valid input: the filter fits the image, the strides are positive, the
\* channel counts agree, there is one bias per output channel, and the batch
\* holds at least one image.
ValidInput ==
  /\ Batch >= 1
  /\ kH <= H /\ kW <= W
  /\ sH >= 1 /\ sW >= 1
  /\ ImageChans = Cin
  /\ BiasLen = Cout

\* A variant has been called and ret holds its outcome.
Returned == ret.fn \in 1..3

\* The output extents of the contract, for a valid input.
outH == 1 + ((H - kH) \div sH)
outW == 1 + ((W - kW) \div sW)

\* The window sum of the contract: the sum over dh in [0,kH), dw in [0,kW),
\* ci in [0,Cin) of image[n, i*sH+dh, j*sW+dw, ci] * filter[dh, dw, ci, c].
WindowSum(img, n, i, j, c) ==
  LET D == (0..(kH - 1)) \X (0..(kW - 1)) \X (0..(Cin - 1))
  IN SumOver([d \in D |->
                img.data[<<n, i * sH + d[1], j * sW + d[2], d[3]>>]
                * filters.data[<<d[1], d[2], d[3], c>>]], D)

\* C1: for every valid input filter_images_v1 returns an array with
\* output[n,i,j,c] = bias[c] + the window sum at (n,i,j,c), for every batch
\* index n, output row i, output column j and output channel c.
PerImageContract ==
  (ret.fn = 1 /\ ValidInput) =>
    /\ ret.out.status = "ok"
    /\ \A n \in 0..(Batch - 1), i \in 0..(outH - 1), j \in 0..(outW - 1),
          c \in 0..(Cout - 1) :
         /\ <<n, i, j, c>> \in DOMAIN ret.out.y.data
         /\ ret.out.y.data[<<n, i, j, c>>]
              = biases.data[<<c>>] + WindowSum(images, n, i, j, c)

\* filter_images_v1 has returned for a batch of two images, a non-square
\* filter over two input channels and unequal strides, with several windows.
PerImageContractWitness ==
  /\ ret.fn = 1 /\ ValidInput /\ ret.out.status = "ok"
  /\ Batch = 2 /\ kH # kW /\ sH # sW /\ Cin = 2 /\ Cout = 2
  /\ outH * outW >= 2

\* C2: for any valid input every variant returns an array of shape
\* (batch, 1 + floor((H-kH)/sH), 1 + floor((W-kW)/sW), Cout); the extents the
\* code computes for a 28x28 image, a 4x4 filter and stride 1 are 25x25.
ShapeLaw ==
  /\ <<2, OutExtent(28, 4, 1), OutExtent(28, 4, 1), 4>> = <<2, 25, 25, 4>>
  /\ (Returned /\ ValidInput) =>
       /\ ret.out.status = "ok"
       /\ ret.out.y.shape = <<Batch, 1 + ((H - kH) \div sH),
                              1 + ((W - kW) \div sW), Cout>>

\* A variant has returned where the stride does not divide H - kH, so that
\* the floor matters, and the output has more than one column.
ShapeLawWitness ==
  /\ Returned /\ ValidInput /\ ret.out.status = "ok"
  /\ (H - kH) % sH # 0
  /\ ret.out.y.shape[3] >= 2

\* C3: for any valid input the variants called so far have all returned, with
\* arrays of the same shape and the same value at every index.
VariantsAgree ==
  ValidInput =>
    \A v \in 1..3, w \in 1..3 :
      (first[v] # None /\ first[w] # None) =>
        /\ first[v].status = "ok"
        /\ first[v].y = first[w].y

\* Two different variants, the scalarized one among them, have been called on
\* a valid batch of two images with two input channels.
VariantsAgreeWitness ==
  /\ ValidInput /\ Batch = 2 /\ Cin = 2
  /\ first[3] # None
  /\ first[1] # None \/ first[2] # None
  /\ first[3].status = "ok"


\* The reference layer: tf.keras.layers.Conv2D with padding='valid', kernel
\* filters in (row, column, input channel, output channel) order, applied to
\* a batch in (batch, row, column, channel) order.
KerasConv2D(img, kernel, bias, strd) ==
  LET s == <<img.shape[1],
             1 + ((img.shape[2] - kernel.shape[1]) \div strd[1]),
             1 + ((img.shape[3] - kernel.shape[2]) \div strd[2]),
             kernel.shape[4]>>
      D == (0..(kernel.shape[1] - 1)) \X (0..(kernel.shape[2] - 1))
             \X (0..(kernel.shape[3] - 1))
  IN MkArray(s, [t \in IndexSet(s) |->
       bias.data[<<t[4]>>]
       + SumOver([d \in D |->
                    img.data[<<t[1], t[2] * strd[1] + d[1],
                               t[3] * strd[2] + d[2], d[3]>>]
                    * kernel.data[<<d[1], d[2], d[3], t[4]>>]], D)])

\* C4: with the filters, biases and strides of a reference layer with 'valid'
\* padding and the same input batch, the array every variant returns is the
\* reference layer's output, the filter and image axes taken in the order given.
MatchesReference ==
  (Returned /\ ValidInput) =>
    /\ ret.out.status = "ok"
    /\ ret.out.y = KerasConv2D(images, filters, biases, strides)

\* The batched or the scalarized variant has returned on a batch of two
\* images with a non-square filter, so that a transposed axis would show.
MatchesReferenceWitness ==
  /\ ret.fn \in {2, 3} /\ ValidInput /\ ret.out.status = "ok"
  /\ Batch = 2 /\ kH # kW /\ Cin = 2 /\ Cout = 2

\* C5: whenever the image batch and the filter bank disagree on the number
\* of input channels, the call of any variant raises.
ChannelMismatchRaises ==
  (Returned /\ ImageChans # Cin) => ret.out.status = "error"

\* C6: whenever the bias vector's length is not the filter bank's number of
\* output channels, the call of any variant raises.
BiasMismatchRaises ==
  (Returned /\ BiasLen # Cout) => ret.out.status = "error"

\* C7: whenever the filter is taller or wider than the image, the call of
\* any variant raises and returns no array.
OversizeFilterRaises ==
  (Returned /\ (kH > H \/ kW > W)) => ret.out.status = "error"

\* C8: for every valid input every chunk a variant takes is a full kH x kW
\* window at row i*sH and column j*sW that ends inside the image, and every
\* image element read has row i*sH+dh < H and column j*sW+dw < W with
\* dh < kH and dw < kW.
WindowsInsideImage ==
  (Returned /\ ValidInput) =>
    /\ ret.out.status = "ok"
    /\ \A win \in ret.out.windows :
         /\ win[3] = kH /\ win[4] = kW
         /\ win[1] + kH <= H /\ win[2] + kW <= W
         /\ \E i \in 0..(outH - 1) : win[1] = i * sH
         /\ \E j \in 0..(outW - 1) : win[2] = j * sW
    /\ \A t \in ret.out.reads :
         /\ t[2] < H /\ t[3] < W
         /\ \E i \in 0..(outH - 1), dh \in 0..(kH - 1) : t[2] = i * sH + dh
         /\ \E j \in 0..(outW - 1), dw \in 0..(kW - 1) : t[3] = j * sW + dw

\* A variant has returned where the last window ends before the last row of
\* the image: a further stride would reach past the boundary.
WindowsInsideImageWitness ==
  /\ Returned /\ ValidInput /\ ret.out.status = "ok"
  /\ Cardinality(ret.out.windows) >= 2
  /\ (outH - 1) * sH + kH < H
  /\ ret.out.reads # {}

\* The image indices the contract drops: rows from (outH-1)*sH + kH on,
\* columns from (outW-1)*sW + kW on.
Dropped ==
  {t \in DOMAIN images.data :
     t[2] >= (outH - 1) * sH + kH \/ t[3] >= (outW - 1) * sW + kW}

\* The image batch with the values at the indices in S changed.
Changed(S) ==
  MkArray(images.shape,
          [t \in DOMAIN images.data |->
             IF t \in S THEN images.data[t] + 7 ELSE images.data[t]])

\* The outcome of variant v on the image batch img and the caller's filters,
\* biases and strides.
OutcomeOn(v, img) ==
  CASE v = 1 -> filter_images_v1(img, filters, biases, strides).out
    [] v = 2 -> filter_images_v2(img, filters, biases, strides).out
    [] OTHER -> filter_images_v3(img, filters, biases, strides).out

\* C9: for every valid input the array a variant returns is the one it
\* returns when dropped image elements (any one of them, or all of them) hold
\* different values.
DroppedPixelsIgnored ==
  (Returned /\ ValidInput) =>
    /\ ret.out.status = "ok"
    /\ \A S \in {{t} : t \in Dropped} \cup {Dropped} :
         OutcomeOn(ret.fn, Changed(S)).y = ret.out.y

\* A variant has returned for an image of which both a row and a column are
\* dropped.
DroppedPixelsIgnoredWitness ==
  /\ Returned /\ ValidInput /\ ret.out.status = "ok"
  /\ (outH - 1) * sH + kH < H
  /\ (outW - 1) * sW + kW < W
  /\ Dropped # {}

OutcomeWithBias(v, b) ==
  CASE v = 1 -> filter_images_v1(images, filters, b, strides).out
    [] v = 2 -> filter_images_v2(images, filters, b, strides).out
    [] OTHER -> filter_images_v3(images, filters, b, strides).out

\* Other bias vectors of the caller's length: all zero, all equal, and one
\* that falls from channel to channel.
OtherBiases ==
  {MkArray(biases.shape, [t \in IndexSet(biases.shape) |-> 0]),
   MkArray(biases.shape, [t \in IndexSet(biases.shape) |-> 5]),
   MkArray(biases.shape, [t \in IndexSet(biases.shape) |-> 3 - 7 * t[1]])}

\* C12: the bias is additive and indexed by the output channel only: for a
\* valid input, every variant and every index (n,i,j,c), output[n,i,j,c] -
\* bias[c] is the same whatever the bias vector.
BiasAdditive ==
  (Returned /\ ValidInput) =>
    /\ ret.out.status = "ok"
    /\ \A b \in OtherBiases :
         LET other == OutcomeWithBias(ret.fn, b)
         IN /\ other.status = "ok"
            /\ DOMAIN other.y.data = DOMAIN ret.out.y.data
            /\ \A t \in DOMAIN ret.out.y.data :
                 other.y.data[t] - b.data[<<t[4]>>]
                   = ret.out.y.data[t] - biases.data[<<t[4]>>]

\* A variant has returned an array with two images, two output channels and
\* several positions, so that a bias indexed by another axis would show.
BiasAdditiveWitness ==
  /\ Returned /\ ValidInput /\ ret.out.status = "ok"
  /\ Batch = 2 /\ Cout = 2
  /\ outH >= 2 /\ outW >= 2


\* ------------------------------------------------ the all-zero filter bank
\* The program called with filters = np.zeros((km, kn, ni, no)): the image
\* batches, bias vectors and strides are those of Init.
InitZero ==
  /\ \E n \in 0..MaxBatch, xm \in 1..MaxH, xn \in 1..MaxW, xc \in 1..MaxChan :
       images = RandomImages(<<n, xm, xn, xc>>)
  /\ \E km \in 1..MaxH, kn \in 1..MaxW, ni \in 1..MaxChan, no \in 1..MaxChan :
       filters = zeros(<<km, kn, ni, no>>)
  /\ \E nb \in 1..(MaxChan + 1) : biases = RandomBiases(<<nb>>)
  /\ strides \in (1..MaxStride) \X (1..MaxStride)
  /\ ret = [fn |-> 0, out |-> None]
  /\ first = [v \in 1..3 |-> None]
  /\ ncalls = 0
  /\ frame = NoFrame
  /\ Elsewhere

SpecZero == InitZero /\ [][Next]_vars

\* C13: with an all-zero filter bank and an otherwise valid input, every
\* element of the array a variant returns is the bias of its output channel,
\* whatever the image batch and the strides.
ZeroFiltersGiveBias ==
  (Returned /\ ValidInput) =>
    /\ \A t \in DOMAIN filters.data : filters.data[t] = 0
    /\ ret.out.status = "ok"
    /\ ret.out.y.shape = <<Batch, outH, outW, Cout>>
    /\ \A t \in DOMAIN ret.out.y.data :
         ret.out.y.data[t] = biases.data[<<t[4]>>]

\* The scalarized variant has returned on a batch of two non-zero images
\* with two channels in and out and a stride of two.
ZeroFiltersGiveBiasWitness ==
  /\ ret.fn = 3 /\ ValidInput /\ ret.out.status = "ok"
  /\ Batch = 2 /\ Cin = 2 /\ Cout = 2 /\ sH = 2
  /\ outH >= 2
  /\ \A t \in DOMAIN images.data : images.data[t] # 0

\* C14: a 1x1 filter with strides (1,1) is a per-pixel linear map over the
\* channels: for a valid input every variant returns an array of the
\* image's height and width with output[n,i,j,c] = bias[c] + the sum over
\* ci of image[n,i,j,ci] * filter[0,0,ci,c].
PointwiseFilter ==
  (Returned /\ ValidInput /\ kH = 1 /\ kW = 1 /\ sH = 1 /\ sW = 1) =>
    /\ ret.out.status = "ok"
    /\ ret.out.y.shape = <<Batch, H, W, Cout>>
    /\ \A t \in IndexSet(<<Batch, H, W, Cout>>) :
         ret.out.y.data[t]
           = biases.data[<<t[4]>>]
             + SumOver([ci \in 0..(Cin - 1) |->
                          images.data[<<t[1], t[2], t[3], ci>>]
                          * filters.data[<<0, 0, ci, t[4]>>]], 0..(Cin - 1))

\* The batched variant has returned for a 1x1 filter with strides (1,1) on
\* two images of the largest size, with two channels in and out.
PointwiseFilterWitness ==
  /\ ret.fn = 2 /\ ValidInput /\ ret.out.status = "ok"
  /\ kH = 1 /\ kW = 1 /\ sH = 1 /\ sW = 1
  /\ Batch = 2 /\ H = MaxH /\ W = MaxW /\ Cin = 2 /\ Cout = 2


\* --------------------------------------------- a call, statement by statement
\* The call of variant v is entered: the shapes are unpacked, the output
\* extents computed and (v2, v3) y = np.zeros(...) allocated, which raises
\* when an extent is negative.  Nothing else is looked at before the loops.
Begin(v) ==
  /\ frame.pc \in {"none", "returned", "raised"}
  /\ UNCHANGED <<layerVars, training>>
  /\ ncalls < MaxFrames
  /\ LET entered == [NoFrame EXCEPT !.fn = v]
         ym == OutExtent(images.shape[2], filters.shape[1], strides[1])
         yn == OutExtent(images.shape[3], filters.shape[2], strides[2])
     IN IF v = 1
          THEN /\ frame' = [entered EXCEPT !.pc = "images"]
               /\ UNCHANGED callerVars
        ELSE IF strides[1] = 0 \/ strides[2] = 0
          THEN /\ frame' = [entered EXCEPT !.pc = "raised"]
               /\ Called(v, Leave(Raise("ZeroDivisionError"), biases))
        ELSE IF ym < 0 \/ yn < 0
          THEN /\ frame' = [entered EXCEPT !.pc = "raised"]
               /\ Called(v, Leave(Raise("ValueError"), biases))
        ELSE /\ frame' = [entered EXCEPT
                            !.pc = "windows",
                            !.st = Running(zeros(<<images.shape[1], ym, yn,
                                                   filters.shape[4]>>))]
             /\ UNCHANGED callerVars

BeginV1 == Begin(1)

BeginV2 == Begin(2)

BeginV3 == Begin(3)

\* [filter_image(image, filters, strides) for image in batch]: the next
\* image is filtered, or the list is complete.
FilterNextImage ==
  /\ frame.fn = 1 /\ frame.pc = "images"
  /\ UNCHANGED <<layerVars, training>>
  /\ IF frame.n >= images.shape[1]
       THEN /\ frame' = [frame EXCEPT !.pc = "add"]
            /\ UNCHANGED callerVars
     ELSE LET o == filter_image(Item(images, frame.n), filters, strides)
          IN IF o.status # "ok"
               THEN /\ frame' = [frame EXCEPT !.pc = "raised"]
                    /\ Called(1, Leave(Raise(o.error), biases))
             ELSE /\ frame' = [frame EXCEPT
                                 !.n = @ + 1,
                                 !.outs = Append(@, o),
                                 !.st.reads =
                                    @ \cup {<<frame.n>> \o t : t \in o.reads},
                                 !.st.windows = @ \cup o.windows]
                  /\ UNCHANGED callerVars

\* One iteration of the two window loops of filter_images_v2 / _v3 (the
\* chunk at (iy, jy) and the loops over it), or the loops are exhausted.
NextWindow ==
  /\ frame.fn \in {2, 3} /\ frame.pc = "windows"
  /\ UNCHANGED <<layerVars, training>>
  /\ LET rows == Len(Windows(images.shape[2], filters.shape[1], strides[1]))
         cols == Len(Windows(images.shape[3], filters.shape[2], strides[2]))
         st == WindowBody(frame.fn, images, filters, strides,
                          frame.iy, frame.jy, frame.st)
         last == frame.jy + 1 >= cols
     IN IF frame.iy >= rows \/ cols = 0
          THEN /\ frame' = [frame EXCEPT !.pc = "add"]
               /\ UNCHANGED callerVars
        ELSE IF st.status # "ok"
          THEN /\ frame' = [frame EXCEPT !.pc = "raised"]
               /\ Called(frame.fn, Leave(Raise(st.error), biases))
        ELSE /\ frame' = [frame EXCEPT
                            !.st = st,
                            !.jy = IF last THEN 0 ELSE @ + 1,
                            !.iy = IF last THEN @ + 1 ELSE @]
             /\ UNCHANGED callerVars

\* outputs = np.array(outputs); outputs = outputs + biases; return outputs
\* (v1), or y += biases; return y (v2, v3).
AddBiases ==
  /\ frame.pc = "add"
  /\ UNCHANGED <<layerVars, training>>
  /\ LET outputs == Stack([i \in 0..(frame.n - 1) |-> frame.outs[i + 1]],
                          frame.n)
         sum == IF frame.fn = 1
                  THEN [ok |-> AddOk(outputs, biases),
                        y |-> AddBias(outputs, biases), biases |-> biases]
                  ELSE AddBiasInPlace(frame.st.y, biases)
     IN IF ~sum.ok
          THEN /\ frame' = [frame EXCEPT !.pc = "raised"]
               /\ Called(frame.fn, Leave(Raise("ValueError"), biases))
        ELSE /\ frame' = [frame EXCEPT !.pc = "returned", !.st.y = sum.y]
             /\ Called(frame.fn,
                       Leave(Return(sum.y, frame.st.reads, frame.st.windows),
                             sum.biases))

NextStep ==
  BeginV1 \/ BeginV2 \/ BeginV3 \/ FilterNextImage \/ NextWindow \/ AddBiases

SpecSteps == Init /\ [][NextStep]_vars

\* The call followed statement by statement ends as the call taken whole.
StepsMakeTheCall ==
  (frame.pc \in {"returned", "raised"}) =>
    /\ ret.fn = frame.fn
    /\ ret.out = OutcomeOn(frame.fn, images)

\* C15: preconditions are validated up front: whenever a call raises because
\* of its inputs, it raises before any output element has been computed (no
\* window has been taken); and a call on a valid input never raises.
ValidatedUpFront ==
  /\ (frame.pc = "raised") => frame.st.windows = {}
  /\ ValidInput => frame.pc # "raised"


\* ------------------------------------------------------- the Conv2D layer
\* A Conv2D object is its __dict__: a function from the names of the data
\* attributes that are set to their values.
MetadataFields ==
  {"input_channels", "output_channels", "filter_shape", "strides", "padding",
   "seed"}

\* jax.random.split(jax.random.PRNGKey(seed)): two keys fixed by the seed.
SplitKey(seed) == <<2 * seed, 2 * seed + 1>>

\* jax.random.uniform(key, shape, minval, maxval): an array of the shape
\* whose values (here in units of a fifth of the range, around 0) are fixed
\* by the key and the index.
Uniform(key, shape) ==
  MkArray(shape, [t \in IndexSet(shape) |->
                    ((key + 3 * Linear(t, shape)) % 5) - 2])

\* The constructor that builds the filters with the channel axes exchanged:
\* shape (*filter_shape, output_channels, input_channels).
Conv2D_init_swapped(input_channels, output_channels, filter_shape, layer_strides, padding, seed, build) ==
  LET self == [input_channels |-> input_channels,
               output_channels |-> output_channels,
               filter_shape |-> filter_shape,
               strides |-> layer_strides,
               padding |-> padding,
               seed |-> seed]
      keys == SplitKey(seed)
  IN IF ~build THEN self
     ELSE ("filters" :> Uniform(keys[1], <<filter_shape[1], filter_shape[2],
                                          output_channels, input_channels>>))
          @@ ("biases" :> Uniform(keys[2], <<output_channels>>))
          @@ self

\* Conv2D.__init__(self, input_channels, output_channels, filter_shape,
\* strides, padding, seed, build), for input_channels * filter_shape[0] *
\* filter_shape[1] > 0 (K = 1 / that product): the object it leaves.
Conv2D_init(input_channels, output_channels, filter_shape, layer_strides, padding, seed, build) ==
  LET self == [input_channels |-> input_channels,
               output_channels |-> output_channels,
               filter_shape |-> filter_shape,
               strides |-> layer_strides,
               padding |-> padding,
               seed |-> seed]
      keys == SplitKey(seed)
  IN IF ~build THEN self
     ELSE ("filters" :> Uniform(keys[1], <<filter_shape[1], filter_shape[2],
                                          input_channels, output_channels>>))
          @@ ("biases" :> Uniform(keys[2], <<output_channels>>))
          @@ self

\* The output extent and the leading padding jax.lax.conv_general_dilated
\* uses along one axis of length x for a window of k and a stride of s:
\* 'valid' pads nothing and keeps the full windows (none if k > x); 'same'
\* gives ceil(x / s) positions and pads half of what they need in front.
ConvExtent(x, k, s, padding) ==
  IF padding = "valid"
    THEN IF FloorDiv(x - k, s) + 1 < 0 THEN 0 ELSE FloorDiv(x - k, s) + 1
  ELSE FloorDiv(x + s - 1, s)

ConvPadLow(x, k, s, padding) ==
  LET need == (ConvExtent(x, k, s, padding) - 1) * s + k - x
  IN IF padding = "valid" \/ need < 0 THEN 0 ELSE need \div 2

\* jax.lax.conv_general_dilated(lhs, rhs, window_strides, padding,
\* dimension_numbers=('NHWC', 'HWIO', 'NHWC')): the cross-correlation of a
\* batch with a filter bank, zeros outside the image; it raises when the
\* channel counts differ, a stride is not positive or the padding is unknown.
conv_general_dilated(lhs, rhs, window_strides, padding) ==
  IF padding \notin {"valid", "same"} THEN Raise("ValueError")
  ELSE IF window_strides[1] < 1 \/ window_strides[2] < 1
    THEN Raise("ValueError")
  ELSE IF lhs.shape[4] # rhs.shape[3] THEN Raise("ValueError")
  ELSE
    LET s == <<lhs.shape[1],
               ConvExtent(lhs.shape[2], rhs.shape[1], window_strides[1], padding),
               ConvExtent(lhs.shape[3], rhs.shape[2], window_strides[2], padding),
               rhs.shape[4]>>
        lo == <<ConvPadLow(lhs.shape[2], rhs.shape[1], window_strides[1], padding),
                ConvPadLow(lhs.shape[3], rhs.shape[2], window_strides[2], padding)>>
        D == (0..(rhs.shape[1] - 1)) \X (0..(rhs.shape[2] - 1))
               \X (0..(rhs.shape[3] - 1))
        At(n, r, c, ci) ==
          IF r < 0 \/ r >= lhs.shape[2] \/ c < 0 \/ c >= lhs.shape[3] THEN 0
          ELSE lhs.data[<<n, r, c, ci>>]
    IN Return(MkArray(s, [t \in IndexSet(s) |->
                SumOver([d \in D |->
                           At(t[1], t[2] * window_strides[1] + d[1] - lo[1],
                              t[3] * window_strides[2] + d[2] - lo[2], d[3])
                           * rhs.data[<<d[1], d[2], d[3], t[4]>>]], D)]),
              {}, {})

\* outputs + b for a jax array: a new array of the broadcast shape.
JaxAdd(outputs, b) ==
  IF outputs.status # "ok" THEN outputs
  ELSE IF ~AddOk(outputs.y, b) THEN Raise("ValueError")
  ELSE Return(AddBias(outputs.y, b), {}, {})

\* Conv2D.__call__(self, batch): the convolution with the layer's filters,
\* strides and padding, then outputs += biases, where biases is the
\* notebook's global of that name (the body does not say self.biases).
Conv2D_call(self, batch) ==
  IF "filters" \notin DOMAIN self THEN Raise("AttributeError")
  ELSE JaxAdd(conv_general_dilated(batch, self.filters, self.strides,
                                   self.padding),
              biases)

\* The flattening that leaves the seed out of the metadata.
tree_flatten_without_seed(self) ==
  IF ~({"filters", "biases"} \subseteq DOMAIN self)
    THEN [status |-> "error", error |-> "AttributeError",
          params |-> <<>>, metadata |-> <<>>]
  ELSE [status |-> "ok", error |-> "",
        params |-> <<self.filters, self.biases>>,
        metadata |-> [k \in DOMAIN self \ {"biases", "filters", "seed"} |->
                        self[k]]]

\* Conv2D.tree_flatten(self)
tree_flatten(self) ==
  IF ~({"filters", "biases"} \subseteq DOMAIN self)
    THEN [status |-> "error", error |-> "AttributeError",
          params |-> <<>>, metadata |-> <<>>]
  ELSE [status |-> "ok", error |-> "",
        params |-> <<self.filters, self.biases>>,
        metadata |-> [k \in DOMAIN self \ {"biases", "filters"} |-> self[k]]]

\* Conv2D.tree_unflatten(cls, metadata, params): cls(**metadata, build=False)
\* takes every key of metadata as a keyword argument (the defaults are
\* those of __init__), then layer.filters, layer.biases = params.
tree_unflatten(metadata, params) ==
  LET Arg(k, default) == IF k \in DOMAIN metadata THEN metadata[k] ELSE default
  IN IF ~(DOMAIN metadata \subseteq MetadataFields)
       THEN [status |-> "error", error |-> "TypeError", layer |-> Unbound]
     ELSE IF ~({"input_channels", "output_channels"} \subseteq DOMAIN metadata)
       THEN [status |-> "error", error |-> "TypeError", layer |-> Unbound]
     ELSE IF Len(params) # 2
       THEN [status |-> "error", error |-> "ValueError", layer |-> Unbound]
     ELSE [status |-> "ok", error |-> "",
           layer |-> ("filters" :> params[1]) @@ ("biases" :> params[2])
                     @@ Conv2D_init(metadata.input_channels,
                                    metadata.output_channels,
                                    Arg("filter_shape", <<2, 2>>),
                                    Arg("strides", <<1, 1>>),
                                    Arg("padding", "valid"),
                                    Arg("seed", 1234), FALSE)]

\* The layer notebook's globals: input_batch = np.random.randn(...), and
\* filters, biases = layer_keras.get_weights(), strides = layer_keras.strides
\* of a Keras layer built on that batch (so the channel counts agree and the
\* kernel fits the image).
InitLayer ==
  /\ \E xc \in 1..MaxChan :
       /\ images = RandomImages(<<1, MaxH, MaxW, xc>>)
       /\ \E km \in 1..2, kn \in 1..2, no \in 1..MaxChan :
            /\ filters = RandomFilters(<<km, kn, xc, no>>)
            /\ biases = RandomBiases(<<no>>)
  /\ strides \in (1..MaxStride) \X (1..MaxStride)
  /\ ret = [fn |-> 0, out |-> None]
  /\ first = [v \in 1..3 |-> None]
  /\ ncalls = 0
  /\ frame = NoFrame
  /\ Elsewhere

\* The seeds a layer is constructed with: the default and another.
Seeds == {1234, 7}

\* layer_jax = Conv2D(input_channels=..., output_channels=..., ...): the
\* filter shape and the strides are the Keras layer's or the defaults.
Construct(build) ==
  /\ layer_jax = Unbound
  /\ \E ic \in 1..MaxChan, oc \in 1..MaxChan,
        fs \in {<<kH, kW>>, <<2, 2>>}, st \in {strides, <<1, 1>>},
        pad \in {"valid", "same"}, seed \in Seeds :
       layer_jax' = Conv2D_init(ic, oc, fs, st, pad, seed, build)
  /\ UNCHANGED <<callerVars, frame, output_batch_jax, pytree, training>>

\* Conv2D(...), build left at its default True.
ConstructBuilt == Construct(TRUE)

\* Conv2D(..., build=False)
ConstructBare == Construct(FALSE)

\* layer_jax.filters, layer_jax.biases = layer_keras.get_weights()
SetWeights ==
  /\ layer_jax # Unbound
  /\ layer_jax' = ("filters" :> filters) @@ ("biases" :> biases) @@ layer_jax
  /\ UNCHANGED <<callerVars, frame, output_batch_jax, pytree, training>>

\* output_batch_jax = layer_jax(input_batch)
CallLayer ==
  /\ layer_jax # Unbound
  /\ output_batch_jax' = Conv2D_call(layer_jax, images)
  /\ UNCHANGED <<callerVars, frame, layer_jax, pytree, training>>

\* params, metadata = layer_jax.tree_flatten(), as the pytree registry
\* calls it.
Flatten ==
  /\ layer_jax # Unbound
  /\ pytree' = [of |-> layer_jax, flat |-> tree_flatten(layer_jax),
                restored |-> Unbound]
  /\ UNCHANGED <<callerVars, frame, layer_jax, output_batch_jax, training>>

\* Conv2D.tree_unflatten(metadata, params) on what tree_flatten returned.
Unflatten ==
  /\ pytree.flat # Unbound
  /\ pytree.flat.status = "ok"
  /\ pytree' = [pytree EXCEPT
                  !.restored = tree_unflatten(pytree.flat.metadata,
                                              pytree.flat.params)]
  /\ UNCHANGED <<callerVars, frame, layer_jax, output_batch_jax, training>>

NextLayer ==
  ConstructBuilt \/ ConstructBare \/ SetWeights \/ CallLayer \/ Flatten
    \/ Unflatten

SpecLayer == InitLayer /\ [][NextLayer]_vars

\* What the contract asks of the layer's call: the convolution with the
\* layer's filters, strides and padding plus the layer's own biases, one per
\* output channel.
LayerContract(self, batch) ==
  IF ~({"filters", "biases"} \subseteq DOMAIN self) THEN Raise("AttributeError")
  ELSE JaxAdd(conv_general_dilated(batch, self.filters, self.strides,
                                   self.padding),
              self.biases)

\* C16: the bias added is always the callee's own: the outcome of a call of
\* the layer is the convolution of the input batch with the layer's filters,
\* strides and padding plus the layer's own biases per output channel, and
\* depends on no variable outside them.
OwnBiasAdded ==
  [][CallLayer => output_batch_jax' = LayerContract(layer_jax, images)]_vars

\* C18: build decides whether the filters and biases get initialized: a
\* layer constructed with build=True holds the six metadata fields, filters
\* of shape (fH, fW, input_channels, output_channels) and biases of shape
\* (output_channels,); one constructed with build=False holds the six
\* metadata fields only.
BuildDecides ==
  [][/\ ConstructBuilt =>
          /\ DOMAIN layer_jax' = MetadataFields \cup {"filters", "biases"}
          /\ layer_jax'.filters.shape
               = <<layer_jax'.filter_shape[1], layer_jax'.filter_shape[2],
                   layer_jax'.input_channels, layer_jax'.output_channels>>
          /\ layer_jax'.biases.shape = <<layer_jax'.output_channels>>
     /\ ConstructBare => DOMAIN layer_jax' = MetadataFields]_vars

\* A layer built by the constructor (its filters are the seed's, not the
\* Keras layer's) with a non-square filter and one input channel for two
\* output channels.
BuildDecidesWitness ==
  /\ layer_jax # Unbound
  /\ "filters" \in DOMAIN layer_jax
  /\ layer_jax.filters
       = Uniform(SplitKey(layer_jax.seed)[1], layer_jax.filters.shape)
  /\ layer_jax.filter_shape = <<2, 1>>
  /\ layer_jax.input_channels = 1 /\ layer_jax.output_channels = 2

\* C19: for a layer whose filters and biases are set, tree_flatten returns
\* (filters, biases) and a metadata dictionary of every other attribute,
\* each a constructor argument; tree_unflatten of the two returns a layer
\* with the same filters, biases and six metadata fields, and flattening
\* that layer gives the same (params, metadata).
PytreeRoundTrip ==
  /\ (pytree.flat # Unbound
        /\ {"filters", "biases"} \subseteq DOMAIN pytree.of) =>
       /\ pytree.flat.status = "ok"
       /\ pytree.flat.params = <<pytree.of.filters, pytree.of.biases>>
       /\ DOMAIN pytree.flat.metadata = DOMAIN pytree.of \ {"filters", "biases"}
       /\ DOMAIN pytree.flat.metadata \subseteq MetadataFields
       /\ \A k \in DOMAIN pytree.flat.metadata :
            pytree.flat.metadata[k] = pytree.of[k]
  /\ (pytree.restored # Unbound) =>
       /\ pytree.restored.status = "ok"
       /\ DOMAIN pytree.restored.layer = DOMAIN pytree.of
       /\ \A k \in MetadataFields \cup {"filters", "biases"} :
            pytree.restored.layer[k] = pytree.of[k]
       /\ tree_flatten(pytree.restored.layer) = pytree.flat

\* A layer with a seed and a padding other than the defaults, holding the
\* Keras layer's weights, has been flattened and unflattened.
PytreeRoundTripWitness ==
  /\ pytree.restored # Unbound
  /\ pytree.restored.status = "ok"
  /\ pytree.of.seed # 1234 /\ pytree.of.padding = "same"
  /\ pytree.of.filters = filters
  /\ pytree.of.filter_shape # <<filters.shape[1], filters.shape[2]>>


\* ------------------------------------------- linear regression: arithmetic
\* The floating-point numbers of the regression notebook are taken as exact
\* fractions <<numerator, denominator>> in lowest terms, denominator > 0.
RECURSIVE GCD(_, _)
GCD(a, b) == IF b = 0 THEN a ELSE GCD(b, a % b)

Norm(n, d) ==
  LET g == GCD(IF n < 0 THEN 0 - n ELSE n, d)
  IN IF n < 0 THEN <<0 - ((0 - n) \div g), d \div g>> ELSE <<n \div g, d \div g>>

QInt(k) == <<k, 1>>

Abs(n) == IF n < 0 THEN 0 - n ELSE n

\* The sums and products reduce by common factors before they multiply, so
\* that no intermediate value is larger than the result needs.
QAdd(p, q) ==
  LET g == GCD(p[2], q[2])
  IN Norm(p[1] * (q[2] \div g) + q[1] * (p[2] \div g), (p[2] \div g) * q[2])

QSub(p, q) == QAdd(p, <<0 - q[1], q[2]>>)

QMul(p, q) ==
  LET g == GCD(Abs(p[1]), q[2])
      h == GCD(Abs(q[1]), p[2])
  IN Norm((p[1] \div g) * (q[1] \div h), (p[2] \div h) * (q[2] \div g))

\* p / k for an integer k > 0.
QDivInt(p, k) == Norm(p[1], p[2] * k)

RECURSIVE QSum(_)
\* The sum of a sequence of fractions.
QSum(seq) ==
  IF seq = <<>> THEN QInt(0) ELSE QAdd(seq[1], QSum(Tail(seq)))

\* jnp.mean over a non-empty sequence.
Mean(seq) == QDivInt(QSum(seq), Len(seq))


\* --------------------------------------------- linear regression: train
\* jax.random.normal(key, (num_samples, 3)) for the fixed seed 3551: a
\* matrix fixed by its shape, here with entries -1, 0 and 1.
Normal(num_samples) ==
  [s \in 1..num_samples |-> [j \in 1..3 |-> ((2 * s + j) % 3) - 1]]

\* jnp.dot(x, w) for a row x of integers and weights w.
Dot(x, w) == QSum([j \in 1..3 |-> QMul(QInt(x[j]), w[j])])

\* generate_data(w, b, num_samples): X, and y = jnp.dot(X, w) + b.
generate_data(w, b, num_samples) ==
  LET X == Normal(num_samples)
  IN [X |-> X,
      y |-> [s \in 1..num_samples |->
               QAdd(Dot(X[s], [j \in 1..3 |-> QInt(w[j])]), QInt(b))[1]]]

\* linear_model(params, x)
linear_model(params, x) == QAdd(Dot(x, params.w), params.b)

\* The loss and gradient of the first sample alone.
mse_loss_first_sample(params, X, y) ==
  LET l == [s \in 1..1 |-> linear_model(params, X[s])]
      r == [s \in 1..1 |-> QSub(l[s], QInt(y[s]))]
  IN [value |-> Mean([s \in 1..1 |-> QMul(r[s], r[s])]),
      grad |-> [w |-> [j \in 1..3 |->
                         Mean([s \in 1..1 |->
                                 QMul(QInt(2 * X[s][j]), r[s])])],
                b |-> Mean([s \in 1..1 |-> QMul(QInt(2), r[s])])]]

\* mse_loss(params, model, X, y) under jax.value_and_grad, model =
\* linear_model: the mean over all samples of (l - y)**2, and its gradient
\* with respect to params, the mean over all samples of 2 * (l - y) * x for
\* 'w' and of 2 * (l - y) for 'b'.
mse_loss(params, X, y) ==
  LET m == Len(X)
      l == [s \in 1..m |-> linear_model(params, X[s])]
      r == [s \in 1..m |-> QSub(l[s], QInt(y[s]))]
  IN [value |-> Mean([s \in 1..m |-> QMul(r[s], r[s])]),
      grad |-> [w |-> [j \in 1..3 |->
                         Mean([s \in 1..m |->
                                 QMul(QInt(2 * X[s][j]), r[s])])],
                b |-> Mean([s \in 1..m |-> QMul(QInt(2), r[s])])]]

\* The learning rates train is called with.
LearningRates == {<<1, 4>>, <<1, 2>>}

\* X, y = generate_data(w=..., b=..., num_samples=...); num_epochs, lr = ...:
\* the data and the arguments of the call of train that is to come.
InitTrain ==
  /\ images = Unbound /\ filters = Unbound
  /\ biases = Unbound /\ strides = Unbound
  /\ ret = [fn |-> 0, out |-> None]
  /\ first = [v \in 1..3 |-> None]
  /\ ncalls = 0
  /\ frame = NoFrame
  /\ layer_jax = Unbound
  /\ output_batch_jax = None
  /\ pytree = NoPytree
  /\ \E w \in {<<1, 2, 3>>, <<0, 0, 0>>, <<-1, 0, 2>>}, b \in {4, 0},
        num_samples \in 1..MaxSamples, rate \in LearningRates,
        num_epochs \in 0..MaxEpochs :
       training = [NoTraining EXCEPT
                     !.pc = "start",
                     !.X = generate_data(w, b, num_samples).X,
                     !.y = generate_data(w, b, num_samples).y,
                     !.lr = rate,
                     !.num_epochs = num_epochs]

\* X, y = data; loss_vals = np.zeros(num_epochs); params = {'w':
\* jnp.array([0,0,0]), 'b': 0.0}; the loop is about to start.  np.zeros
\* raises for a negative num_epochs.
TrainEnter ==
  /\ training.pc = "start"
  /\ training' =
       IF training.num_epochs < 0 THEN [training EXCEPT !.pc = "raised"]
       ELSE [training EXCEPT
               !.pc = "for",
               !.loss_vals = [k \in 1..training.num_epochs |-> QInt(0)],
               !.params = [w |-> [j \in 1..3 |-> QInt(0)], b |-> QInt(0)],
               !.i = 0]
  /\ UNCHANGED <<callerVars, frame, layerVars>>

\* for i in range(num_epochs): loss_i, grad_params_i = loss(params, model,
\* X, y), or the range is exhausted and train returns loss_vals, params.
\* Field i is the index the range gives next.
TrainEpoch ==
  /\ training.pc = "for"
  /\ training' =
       IF training.i >= training.num_epochs
         THEN [training EXCEPT !.pc = "returned"]
       ELSE LET out == mse_loss(training.params, training.X, training.y)
            IN [training EXCEPT
                  !.pc = "w",
                  !.loss_i = out.value,
                  !.grad_params_i = out.grad]
  /\ UNCHANGED <<callerVars, frame, layerVars>>

\* for key in params: params[key] -= lr*grad_params_i[key], key = 'w'
UpdateW ==
  /\ training.pc = "w"
  /\ training' =
       [training EXCEPT
          !.pc = "b",
          !.params.w = [j \in 1..3 |->
                          QSub(@[j], QMul(training.lr,
                                          training.grad_params_i.w[j]))],
          !.updates = @ + 1]
  /\ UNCHANGED <<callerVars, frame, layerVars>>

\* params[key] -= lr*grad_params_i[key], key = 'b', with the gradient taken
\* anew at the parameters as 'w' has left them.
UpdateBFresh ==
  /\ training.pc = "b"
  /\ training' =
       [training EXCEPT
          !.pc = "record",
          !.params.b =
            QSub(@, QMul(training.lr,
                         mse_loss(training.params, training.X,
                                  training.y).grad.b)),
          !.updates = @ + 1]
  /\ UNCHANGED <<callerVars, frame, layerVars>>

\* params[key] -= lr*grad_params_i[key], key = 'b'
UpdateB ==
  /\ training.pc = "b"
  /\ training' =
       [training EXCEPT
          !.pc = "record",
          !.params.b = QSub(@, QMul(training.lr, training.grad_params_i.b)),
          !.updates = @ + 1]
  /\ UNCHANGED <<callerVars, frame, layerVars>>

\* loss_vals[i] = the loss at the parameters as the updates have left them.
RecordLossAfter ==
  /\ training.pc = "record"
  /\ training' =
       [training EXCEPT
          !.pc = "for",
          !.loss_vals[training.i + 1] =
            mse_loss(training.params, training.X, training.y).value,
          !.i = @ + 1]
  /\ UNCHANGED <<callerVars, frame, layerVars>>

\* loss_vals[i] = loss_i, the last statement of the loop body.
RecordLoss ==
  /\ training.pc = "record"
  /\ training' =
       [training EXCEPT
          !.pc = "for",
          !.loss_vals[training.i + 1] = training.loss_i,
          !.i = @ + 1]
  /\ UNCHANGED <<callerVars, frame, layerVars>>

NextTrain == TrainEnter \/ TrainEpoch \/ UpdateW \/ UpdateB \/ RecordLoss

SpecTrain == InitTrain /\ [][NextTrain]_vars

\* The gradient of the mean squared error over the entire dataset at the
\* parameters p: (2/m) * the sum over all samples s of (x_s . w + b - y_s)
\* times x_s (for w) or times 1 (for b).
FullGradient(p) ==
  LET m == Len(training.X)
      r == [s \in 1..m |->
              QSub(QAdd(Dot(training.X[s], p.w), p.b), QInt(training.y[s]))]
  IN [w |-> [j \in 1..3 |->
               QMul(<<2, m>>,
                    QSum([s \in 1..m |-> QMul(r[s], QInt(training.X[s][j]))]))],
      b |-> QMul(<<2, m>>, QSum(r))]

RECURSIVE Descent(_)
\* The parameters after k steps p := p - lr * FullGradient(p) from w =
\* (0,0,0), b = 0.
Descent(k) ==
  IF k = 0 THEN [w |-> [j \in 1..3 |-> QInt(0)], b |-> QInt(0)]
  ELSE LET p == Descent(k - 1)
           g == FullGradient(p)
       IN [w |-> [j \in 1..3 |-> QSub(p.w[j], QMul(training.lr, g.w[j]))],
           b |-> QSub(p.b, QMul(training.lr, g.b))]

\* C17: train adjusts the parameters once per epoch: from w = (0,0,0), b = 0
\* it updates each parameter exactly num_epochs times, each update with the
\* gradient of the loss over the entire dataset, and then returns; with
\* num_epochs = 0 it returns the initial parameters and an empty loss record.
OncePerEpoch ==
  /\ (training.pc = "for") =>
       /\ training.updates = 2 * training.i
       /\ training.params = Descent(training.i)
  /\ (training.pc = "returned") =>
       /\ training.updates = 2 * training.num_epochs
       /\ training.params = Descent(training.num_epochs)
       /\ Len(training.loss_vals) = training.num_epochs
       /\ training.num_epochs = 0 =>
            /\ training.params = [w |-> [j \in 1..3 |-> QInt(0)], b |-> QInt(0)]
            /\ training.loss_vals = <<>>
  /\ training.pc # "raised"

\* train has returned after the most epochs on two samples whose targets
\* the initial parameters do not fit, so that every epoch moved them.
OncePerEpochWitness ==
  /\ training.pc = "returned"
  /\ training.num_epochs = MaxEpochs
  /\ Len(training.X) = 2
  /\ training.params # Descent(MaxEpochs - 1)
  /\ training.params # Descent(0)


\* ------------------------------------------------- windows and extents
\* C20: whenever the filter fits the image and the strides are positive,
\* range(0, H-kH+1, sH) enumerates 1 + floor((H-kH)/sH) positions, the k-th
\* of them k*sH, which is the extent the output is allocated with (likewise
\* for the columns); hence a call of any variant on a valid input makes no
\* write outside the output array and takes the window of every allocated
\* output position.
PositionsFillOutput ==
  /\ (kH <= H /\ kW <= W /\ sH >= 1 /\ sW >= 1) =>
       /\ Len(Windows(H, kH, sH)) = 1 + ((H - kH) \div sH)
       /\ Len(Windows(W, kW, sW)) = 1 + ((W - kW) \div sW)
       /\ Len(Windows(H, kH, sH)) = OutExtent(H, kH, sH)
       /\ Len(Windows(W, kW, sW)) = OutExtent(W, kW, sW)
       /\ \A k \in 0..(Len(Windows(H, kH, sH)) - 1) :
            Windows(H, kH, sH)[k + 1] = k * sH
       /\ \A k \in 0..(Len(Windows(W, kW, sW)) - 1) :
            Windows(W, kW, sW)[k + 1] = k * sW
  /\ (Returned /\ ValidInput) =>
       /\ ret.out.error # "IndexError"
       /\ ret.out.status = "ok"
       /\ \A i \in 0..(ret.out.y.shape[2] - 1), j \in 0..(ret.out.y.shape[3] - 1) :
            <<i * sH, j * sW, kH, kW>> \in ret.out.windows
       /\ Cardinality(ret.out.windows)
            = ret.out.y.shape[2] * ret.out.y.shape[3]

\* A variant has returned with a row stride of two over several output rows
\* and a column stride that does not divide W - kW.
PositionsFillOutputWitness ==
  /\ Returned /\ ValidInput /\ ret.out.status = "ok"
  /\ sH = 2 /\ ret.out.y.shape[2] >= 2
  /\ (W - kW) % sW # 0


\* ------------------------------------------------ a call, loop by loop
\* The call followed through its loops: one store per step in filter_image
\* and filter_images_v2, one statement of the element loops per step in
\* filter_images_v3.  The frame holds, besides the locals of the variant,
\* what the call has done so far: visits, the window positions the loops
\* have taken in order (<<n, iy, jy>> in filter_image called for image n,
\* <<iy, jy>> in v2 and v3); assigned, for every element of y the number of
\* times the loops have stored to it; terms, for every element of y the
\* image indices whose values are in the value stored; biased, the number of
\* times the bias addition has run.
NoTmp == [val |-> 0, terms |-> {}]

EnteredFrame(v) ==
  [fn |-> v, pc |-> "entered", n |-> 0, outs |-> <<>>, iy |-> 0, jy |-> 0,
   channel |-> 0, output_chan |-> 0, item |-> 0, p |-> 0, tmp |-> NoTmp,
   st |-> Running(NoArray), visits |-> <<>>,
   assigned |-> [t \in {} |-> 0], terms |-> [t \in {} |-> {}], biased |-> 0]

\* y = np.zeros(shape): the frame with y allocated and nothing stored yet.
Allocated(f, shape) ==
  [f EXCEPT !.st = Running(zeros(shape)),
            !.iy = 0, !.jy = 0,
            !.assigned = [t \in IndexSet(shape) |-> 0],
            !.terms = [t \in IndexSet(shape) |-> {}]]

\* The window loops that leave the last column of a row out: they move to
\* the next row one column early.
AdvanceEarly(f, cols) ==
  [f EXCEPT !.jy = IF f.jy + 2 >= cols THEN 0 ELSE @ + 1,
            !.iy = IF f.jy + 2 >= cols THEN @ + 1 ELSE @]

\* The window loops move on from (iy, jy): the next column, or the first
\* column of the next row.
Advance(f, cols) ==
  [f EXCEPT !.jy = IF f.jy + 1 >= cols THEN 0 ELSE @ + 1,
            !.iy = IF f.jy + 1 >= cols THEN @ + 1 ELSE @]

\* The call is entered (v2, v3: shapes unpacked, extents computed,
\* y = np.zeros(...), which raises for a negative extent).
Enter(v) ==
  /\ frame.pc \in {"none", "returned", "raised"}
  /\ ncalls < MaxFrames
  /\ UNCHANGED <<layerVars, training>>
  /\ LET ym == OutExtent(images.shape[2], filters.shape[1], strides[1])
         yn == OutExtent(images.shape[3], filters.shape[2], strides[2])
     IN IF v = 1
          THEN /\ frame' = [EnteredFrame(v) EXCEPT !.pc = "images"]
               /\ UNCHANGED callerVars
        ELSE IF strides[1] = 0 \/ strides[2] = 0
          THEN /\ frame' = [EnteredFrame(v) EXCEPT !.pc = "raised"]
               /\ Called(v, Leave(Raise("ZeroDivisionError"), biases))
        ELSE IF ym < 0 \/ yn < 0
          THEN /\ frame' = [EnteredFrame(v) EXCEPT !.pc = "raised"]
               /\ Called(v, Leave(Raise("ValueError"), biases))
        ELSE /\ frame' = [Allocated(EnteredFrame(v),
                                    <<images.shape[1], ym, yn, filters.shape[4]>>)
                            EXCEPT !.pc = "windows"]
             /\ UNCHANGED callerVars

EnterV1 == Enter(1)

EnterV2 == Enter(2)

EnterV3 == Enter(3)

\* [filter_image(image, filters, strides) for image in batch]: the list is
\* complete, or filter_image is entered for the next image (its extents,
\* its y = np.zeros((ym, yn, no))).
V1NextImage ==
  /\ frame.fn = 1 /\ frame.pc = "images"
  /\ UNCHANGED <<layerVars, training>>
  /\ LET ym == OutExtent(images.shape[2], filters.shape[1], strides[1])
         yn == OutExtent(images.shape[3], filters.shape[2], strides[2])
     IN IF frame.n >= images.shape[1]
          THEN /\ frame' = [frame EXCEPT !.pc = "add"]
               /\ UNCHANGED callerVars
        ELSE IF strides[1] = 0 \/ strides[2] = 0
          THEN /\ frame' = [frame EXCEPT !.pc = "raised"]
               /\ Called(1, Leave(Raise("ZeroDivisionError"), biases))
        ELSE IF ym < 0 \/ yn < 0
          THEN /\ frame' = [frame EXCEPT !.pc = "raised"]
               /\ Called(1, Leave(Raise("ValueError"), biases))
        ELSE /\ frame' = [Allocated(frame, <<ym, yn, filters.shape[4]>>)
                            EXCEPT !.pc = "image_windows"]
             /\ UNCHANGED callerVars

\* chunk = image[ix:ix+km,jx:jx+kn,:] at the window (iy, jy) of the frame,
\* image the one filter_image was called with.
ImageChunk ==
  Chunk(Item(images, frame.n),
        Windows(images.shape[2], filters.shape[1], strides[1])[frame.iy + 1],
        filters.shape[1],
        Windows(images.shape[3], filters.shape[2], strides[2])[frame.jy + 1],
        filters.shape[2])

\* The head of the two window loops of filter_image: the loops are exhausted
\* and filter_image returns y to the list, or the chunk at the next window
\* is taken and the loop over the channels starts.
V1TakeChunk ==
  /\ frame.fn = 1 /\ frame.pc = "image_windows"
  /\ UNCHANGED <<layerVars, training, callerVars>>
  /\ LET rows == Len(Windows(images.shape[2], filters.shape[1], strides[1]))
         cols == Len(Windows(images.shape[3], filters.shape[2], strides[2]))
     IN IF frame.iy >= rows \/ cols = 0
          THEN frame' = [frame EXCEPT
                           !.pc = "images",
                           !.n = @ + 1,
                           !.outs = Append(@, Return(frame.st.y, frame.st.reads,
                                                     frame.st.windows))]
        ELSE frame' = [frame EXCEPT
                         !.pc = "image_channels",
                         !.channel = 0,
                         !.visits = Append(@, <<frame.n, frame.iy, frame.jy>>)]

\* for channel in range(no): y[iy,jy,channel] = np.sum(filters[:,:,:,channel]
\* * chunk): the store for the next channel, or the channels are exhausted
\* and the window loops move on.
V1Channel ==
  /\ frame.fn = 1 /\ frame.pc = "image_channels"
  /\ UNCHANGED <<layerVars, training>>
  /\ LET cols == Len(Windows(images.shape[3], filters.shape[2], strides[2]))
         st == FilterImageStore(filters, ImageChunk, frame.iy, frame.jy,
                                frame.channel, frame.st)
     IN IF frame.channel >= filters.shape[4]
          THEN /\ frame' = [Advance(frame, cols) EXCEPT !.pc = "image_windows"]
               /\ UNCHANGED callerVars
        ELSE IF st.status # "ok"
          THEN /\ frame' = [frame EXCEPT !.pc = "raised"]
               /\ Called(1, Leave(Raise(st.error), biases))
        ELSE /\ frame' = [frame EXCEPT !.st = st, !.channel = @ + 1]
             /\ UNCHANGED callerVars

\* chunk = images[:,ix:ix+km,jx:jx+kn,:] at the window (iy, jy) of the frame.
FrameChunk ==
  BatchChunk(images,
             Windows(images.shape[2], filters.shape[1], strides[1])[frame.iy + 1],
             filters.shape[1],
             Windows(images.shape[3], filters.shape[2], strides[2])[frame.jy + 1],
             filters.shape[2])

\* The head of the two window loops of filter_images_v2: the loops are
\* exhausted, or the chunk at the next window is taken and the loop over the
\* channels starts.
V2TakeChunk ==
  /\ frame.fn = 2 /\ frame.pc = "windows"
  /\ UNCHANGED <<layerVars, training, callerVars>>
  /\ LET rows == Len(Windows(images.shape[2], filters.shape[1], strides[1]))
         cols == Len(Windows(images.shape[3], filters.shape[2], strides[2]))
     IN IF frame.iy >= rows \/ cols = 0
          THEN frame' = [frame EXCEPT !.pc = "add"]
        ELSE frame' = [frame EXCEPT
                         !.pc = "channels",
                         !.channel = 0,
                         !.visits = Append(@, <<frame.iy, frame.jy>>)]

\* for channel in range(num_filters): y[:,iy,jy,channel] = np.sum(
\* filters[:,:,:,channel] * chunk, axis=(1,2,3)): the store for the next
\* channel, or the channels are exhausted and the window loops move on.
V2Channel ==
  /\ frame.fn = 2 /\ frame.pc = "channels"
  /\ UNCHANGED <<layerVars, training>>
  /\ LET km == filters.shape[1]
         kn == filters.shape[2]
         ix == Windows(images.shape[2], km, strides[1])[frame.iy + 1]
         jx == Windows(images.shape[3], kn, strides[2])[frame.jy + 1]
         cols == Len(Windows(images.shape[3], kn, strides[2]))
         st == V2Store(images, filters, FrameChunk,
                       ChunkShape(images, ix, km, jx, kn),
                       frame.iy, frame.jy, frame.channel, frame.st)
     IN IF frame.channel >= filters.shape[4]
          THEN /\ frame' = [Advance(frame, cols) EXCEPT !.pc = "windows"]
               /\ UNCHANGED callerVars
        ELSE IF st.status # "ok"
          THEN /\ frame' = [frame EXCEPT !.pc = "raised"]
               /\ Called(2, Leave(Raise(st.error), biases))
        ELSE /\ frame' = [frame EXCEPT !.st = st, !.channel = @ + 1]
             /\ UNCHANGED callerVars

\* The head of the two window loops of filter_images_v3: the loops are
\* exhausted, or the chunk at the next window is taken and the loop over the
\* output channels starts.
V3TakeChunk ==
  /\ frame.fn = 3 /\ frame.pc = "windows"
  /\ UNCHANGED <<layerVars, training, callerVars>>
  /\ LET rows == Len(Windows(images.shape[2], filters.shape[1], strides[1]))
         cols == Len(Windows(images.shape[3], filters.shape[2], strides[2]))
     IN IF frame.iy >= rows \/ cols = 0
          THEN frame' = [frame EXCEPT !.pc = "add"]
        ELSE frame' = [frame EXCEPT
                         !.pc = "elements",
                         !.output_chan = 0,
                         !.item = 0,
                         !.visits = Append(@, <<frame.iy, frame.jy>>)]

\* The accumulator that keeps what it held.
ResetTmpKeeps(tmp) == tmp

\* tmp = 0.0
ResetTmp(tmp) == NoTmp

\* for output_chan in range(num_filters): for item in range(batch_size):
\* tmp = 0.0.  The heads of the two element loops: the channels are
\* exhausted (on to the next window), the items are exhausted (on to the next
\* channel), or the accumulator is reset for element (item, iy, jy,
\* output_chan).
V3ResetTmp ==
  /\ frame.fn = 3 /\ frame.pc = "elements"
  /\ UNCHANGED <<layerVars, training, callerVars>>
  /\ LET cols == Len(Windows(images.shape[3], filters.shape[2], strides[2]))
     IN IF frame.output_chan >= filters.shape[4]
          THEN frame' = [Advance(frame, cols) EXCEPT !.pc = "windows"]
        ELSE IF frame.item >= images.shape[1]
          THEN frame' = [frame EXCEPT !.output_chan = @ + 1, !.item = 0]
        ELSE frame' = [frame EXCEPT
                         !.pc = "acc",
                         !.p = 0,
                         !.tmp = ResetTmp(frame.tmp)]

\* The filter index (h, w, input_chan) of the p-th iteration of the loops
\* for h in range(km): for w in range(kn): for input_chan in
\* range(num_input_channels).
FilterIndex(p) ==
  <<p \div (filters.shape[2] * filters.shape[3]),
    (p \div filters.shape[3]) % filters.shape[2],
    p % filters.shape[3]>>

\* tmp += chunk[item, h, w, input_chan] * filters[h, w, input_chan,
\* output_chan], which raises IndexError outside the chunk.
V3Accumulate ==
  /\ frame.fn = 3 /\ frame.pc = "acc"
  /\ frame.p < filters.shape[1] * filters.shape[2] * filters.shape[3]
  /\ UNCHANGED <<layerVars, training>>
  /\ LET d == FilterIndex(frame.p)
         chunk == FrameChunk[frame.item]
     IN IF ~InBounds(d, chunk.shape)
          THEN /\ frame' = [frame EXCEPT !.pc = "raised"]
               /\ Called(3, Leave(Raise("IndexError"), biases))
        ELSE /\ frame' = [frame EXCEPT
                            !.p = @ + 1,
                            !.tmp.val = @ + chunk.data[d]
                                          * filters.data[d \o <<frame.output_chan>>],
                            !.tmp.terms = @ \cup {<<frame.item,
                                                    chunk.origin[1] + d[1],
                                                    chunk.origin[2] + d[2],
                                                    d[3]>>}]
             /\ UNCHANGED callerVars

\* y[item,iy,jy,output_chan] = tmp, once the three filter loops are
\* exhausted; then the next item.
V3Assign ==
  /\ frame.fn = 3 /\ frame.pc = "acc"
  /\ frame.p >= filters.shape[1] * filters.shape[2] * filters.shape[3]
  /\ UNCHANGED <<layerVars, training>>
  /\ LET t == <<frame.item, frame.iy, frame.jy, frame.output_chan>>
     IN IF ~InBounds(t, frame.st.y.shape)
          THEN /\ frame' = [frame EXCEPT !.pc = "raised"]
               /\ Called(3, Leave(Raise("IndexError"), biases))
        ELSE /\ frame' = [frame EXCEPT
                            !.pc = "elements",
                            !.item = @ + 1,
                            !.st.y.data[t] = frame.tmp.val,
                            !.st.reads = @ \cup frame.tmp.terms,
                            !.st.windows =
                               @ \cup {ChunkWindow(FrameChunk[frame.item])},
                            !.assigned[t] = @ + 1,
                            !.terms[t] = frame.tmp.terms]
             /\ UNCHANGED callerVars

\* outputs = np.array(outputs); outputs = outputs + biases; return outputs
\* (v1), or y += biases; return y (v2, v3).
LoopsAddBiases ==
  /\ frame.pc = "add"
  /\ UNCHANGED <<layerVars, training>>
  /\ LET outs == [i \in 0..(frame.n - 1) |-> frame.outs[i + 1]]
         outputs == Stack(outs, frame.n)
         sum == IF frame.fn = 1
                  THEN [ok |-> AddOk(outputs, biases),
                        y |-> AddBias(outputs, biases), biases |-> biases]
                  ELSE AddBiasInPlace(frame.st.y, biases)
         reads == IF frame.fn = 1
                    THEN UNION {{<<i>> \o t : t \in outs[i].reads} :
                                  i \in 0..(frame.n - 1)}
                    ELSE frame.st.reads
         windows == IF frame.fn = 1
                      THEN UNION {outs[i].windows : i \in 0..(frame.n - 1)}
                      ELSE frame.st.windows
     IN IF ~sum.ok
          THEN /\ frame' = [frame EXCEPT !.pc = "raised"]
               /\ Called(frame.fn, Leave(Raise("ValueError"), biases))
        ELSE /\ frame' = [frame EXCEPT !.pc = "returned", !.st.y = sum.y,
                                       !.biased = @ + 1]
             /\ Called(frame.fn, Leave(Return(sum.y, reads, windows), sum.biases))

NextLoops ==
  \/ EnterV1 \/ EnterV2 \/ EnterV3
  \/ V1NextImage \/ V1TakeChunk \/ V1Channel
  \/ V2TakeChunk \/ V2Channel
  \/ V3TakeChunk \/ V3ResetTmp \/ V3Accumulate \/ V3Assign
  \/ LoopsAddBiases

SpecLoops == Init /\ [][NextLoops]_vars

\* The call followed loop by loop ends as the call taken whole.
LoopsMakeTheCall ==
  (frame.pc \in {"returned", "raised"}) =>
    /\ ret.fn = frame.fn
    /\ ret.out = OutcomeOn(frame.fn, images)

\* The image indices of the window of output element t = (item, iy, jy,
\* output_chan): rows iy*sH + dh, columns jy*sW + dw, every filter channel.
OwnWindow(t) ==
  {<<t[1], t[2] * sH + dh, t[3] * sW + dw, ci>> :
     dh \in 0..(kH - 1), dw \in 0..(kW - 1), ci \in 0..(Cin - 1)}

\* C21: in filter_images_v3 every output element (item, iy, jy, output_chan)
\* is assigned exactly once during the convolution step, from an accumulator
\* that was reset to 0 before its window was summed (the value stored is the
\* sum over the element's own window and holds no term of another
\* element's window); the bias is added exactly once to every element, and
\* only after all elements have been assigned.
ScalarizedOnce ==
  (frame.fn = 3 /\ frame.pc # "raised") =>
    /\ \A t \in DOMAIN frame.assigned :
         /\ frame.assigned[t] <= 1
         /\ (frame.assigned[t] = 0 /\ frame.biased = 0) => frame.st.y.data[t] = 0
         /\ frame.assigned[t] = 1 =>
              /\ frame.terms[t] = OwnWindow(t)
              /\ (frame.biased = 0 /\ ImageChans = Cin) =>
                   frame.st.y.data[t] = WindowSum(images, t[1], t[2], t[3], t[4])
    /\ frame.biased <= 1
    /\ frame.biased = 1 <=> frame.pc = "returned"
    /\ frame.biased = 1 =>
         /\ DOMAIN frame.assigned = IndexSet(frame.st.y.shape)
         /\ \A t \in DOMAIN frame.assigned : frame.assigned[t] = 1
         /\ ValidInput =>
              \A t \in DOMAIN frame.assigned :
                ret.out.y.data[t]
                  = biases.data[<<t[4]>>] + WindowSum(images, t[1], t[2], t[3], t[4])
    /\ ValidInput =>
         /\ frame.pc = "add" => \A t \in DOMAIN frame.assigned : frame.assigned[t] = 1
         /\ frame.st.y.shape = <<Batch, outH, outW, Cout>>

\* filter_images_v3 has returned on a valid batch of two images with several
\* windows, two channels in and out and a filter of more than one pixel, so
\* that an accumulator kept from one element to the next would show.
ScalarizedOnceWitness ==
  /\ frame.fn = 3 /\ frame.pc = "returned" /\ ValidInput
  /\ Batch = 2 /\ Cin = 2 /\ Cout = 2
  /\ kH * kW >= 2 /\ outH * outW >= 2
  /\ frame.biased = 1


\* ------------------------------------------------------- the batch axis
\* images[n:n+1]: image n as a batch of one.
BatchOfOne(n) ==
  MkArray(<<1, H, W, ImageChans>>,
          [t \in IndexSet(<<1, H, W, ImageChans>>) |->
             images.data[<<n, t[2], t[3], t[4]>>]])

\* C22: batch items are independent and keep their order: for every variant
\* and every batch of at least one image, the call on the batch ends as the
\* call on each image as a batch of one does (returns, or raises), and when
\* it returns, output[n] is the output of the call on image n alone, for
\* every n in input order; on a valid input it returns one output per image.
BatchItemsIndependent ==
  (Returned /\ Batch >= 1) =>
    /\ ValidInput =>
         /\ ret.out.status = "ok"
         /\ ret.out.y.shape[1] = Batch
    /\ \A n \in 0..(Batch - 1) :
         LET one == OutcomeOn(ret.fn, BatchOfOne(n))
         IN /\ one.status = ret.out.status
            /\ one.status = "ok" =>
                 /\ one.y.shape = <<1>> \o Tail(ret.out.y.shape)
                 /\ \A t \in DOMAIN one.y.data :
                      one.y.data[t] = ret.out.y.data[<<n, t[2], t[3], t[4]>>]

\* A variant has returned on a valid batch of two different images with
\* several output positions and two channels in and out.
BatchItemsIndependentWitness ==
  /\ Returned /\ ValidInput /\ ret.out.status = "ok"
  /\ Batch = 2 /\ Cin = 2 /\ Cout = 2
  /\ outH * outW >= 2
  /\ BatchOfOne(0) # BatchOfOne(1)

\* C23: for an empty batch (batch size 0) with otherwise valid shapes every
\* variant returns, without raising, an empty array of shape (0, outH, outW,
\* Cout).
EmptyBatchReturnsEmpty ==
  (/\ Returned /\ Batch = 0
   /\ kH <= H /\ kW <= W /\ sH >= 1 /\ sW >= 1
   /\ ImageChans = Cin /\ BiasLen = Cout) =>
    /\ ret.out.status = "ok"
    /\ ret.out.y.shape = <<0, outH, outW, Cout>>
    /\ DOMAIN ret.out.y.data = {}


\* ---------------------------------------------- strides that are not positive
\* The program called with a stride pair of which a component is zero or
\* negative; the image batch is not empty, the channel counts agree and there
\* is one bias per output channel.
InitAnyStride ==
  /\ \E n \in 1..MaxBatch, xm \in 1..MaxH, xn \in 1..MaxW,
        km \in 1..MaxH, kn \in 1..MaxW, ni \in 1..MaxChan, no \in 1..MaxChan :
       /\ images = RandomImages(<<n, xm, xn, ni>>)
       /\ filters = RandomFilters(<<km, kn, ni, no>>)
       /\ biases = RandomBiases(<<no>>)
  /\ strides \in {s \in ((0 - MaxStride)..MaxStride) \X ((0 - MaxStride)..MaxStride) :
                    s[1] < 1 \/ s[2] < 1}
  /\ ret = [fn |-> 0, out |-> None]
  /\ first = [v \in 1..3 |-> None]
  /\ ncalls = 0
  /\ frame = NoFrame
  /\ Elsewhere

SpecAnyStride == InitAnyStride /\ [][Next]_vars

\* C24: a stride pair with a component smaller than 1 is never accepted: the
\* call of any variant with such a stride raises and returns no array, also
\* when the filter has the height and width of the image.
NonPositiveStrideRaises ==
  (Returned /\ (sH < 1 \/ sW < 1)) =>
    /\ ret.out.status = "error"
    /\ ret.out.y = NoArray


\* ------------------------------------------------------------ termination
\* Python runs a call statement after statement until it returns or raises:
\* whenever a step of the call is possible, a step is taken.
\* The inputs are the valid ones: the filter fits the image, the channel
\* counts agree, there is one bias per output channel and at least one image.
InitValid ==
  /\ \E n \in 1..MaxBatch, xm \in 1..MaxH, xn \in 1..MaxW,
        ni \in 1..MaxChan, no \in 1..MaxChan :
       /\ images = RandomImages(<<n, xm, xn, ni>>)
       /\ \E km \in 1..xm, kn \in 1..xn :
            filters = RandomFilters(<<km, kn, ni, no>>)
       /\ biases = RandomBiases(<<no>>)
  /\ strides \in (1..MaxStride) \X (1..MaxStride)
  /\ ret = [fn |-> 0, out |-> None]
  /\ first = [v \in 1..3 |-> None]
  /\ ncalls = 0
  /\ frame = NoFrame
  /\ Elsewhere

\* The place the followed call is at: its statement and its loop indices.
Position ==
  IF frame.pc = "none" THEN <<"none">>
  ELSE <<frame.pc, frame.n, frame.iy, frame.jy, frame.channel,
         frame.output_chan, frame.item, frame.p>>

\* A step is possible: the followed call has neither returned nor raised,
\* or a call can still be entered.  This is ENABLED <<NextLoops>>_Position:
\* every statement of a call that is under way can be executed, and every
\* step moves the position.
CanStep ==
  frame.pc \notin {"returned", "raised"} \/ ncalls < MaxFrames

\* Weak fairness of the steps, WF_Position(NextLoops), with its enabling
\* condition written as the state predicate CanStep.
StepsAreTaken ==
  []<>(~CanStep) \/ []<><<NextLoops>>_Position

SpecLoopsFair == InitValid /\ [][NextLoops]_vars /\ StepsAreTaken

\* The window positions of the output, as the loops record them: (n, iy, jy)
\* for every image n in filter_images_v1, whose loops run once per image,
\* and (iy, jy) in filter_images_v2 and _v3, whose chunk spans the batch.
AllPositions ==
  IF frame.fn = 1
    THEN (0..(Batch - 1)) \X (0..(outH - 1)) \X (0..(outW - 1))
    ELSE (0..(outH - 1)) \X (0..(outW - 1))

ZeroParams == [w |-> [j \in 1..3 |-> QInt(0)], b |-> QInt(0)]

\* C26: within each epoch of train the updates of 'w' and of 'b' both use
\* the gradient computed once, from the parameters held at the start of the
\* epoch: while the updates are under way the gradient held is the one at
\* the epoch's starting parameters and is not computed again, so 'b' is not
\* updated with a gradient evaluated after 'w' was changed.
GradientOfEpochStart ==
  /\ [](training.pc \in {"w", "b", "record"} =>
          /\ training.grad_params_i =
               mse_loss(Descent(training.i), training.X, training.y).grad
          /\ training.updates =
               2 * training.i + (CASE training.pc = "w" -> 0
                                   [] training.pc = "b" -> 1
                                   [] training.pc = "record" -> 2))
  /\ [](training.pc = "w" => training.params = Descent(training.i))
  /\ [](training.pc = "b" =>
          /\ training.params.w = Descent(training.i + 1).w
          /\ training.params.b = Descent(training.i).b)
  /\ [](training.pc = "record" => training.params = Descent(training.i + 1))
  /\ [][training.pc \in {"w", "b"} =>
          training'.grad_params_i = training.grad_params_i]_vars

\* 'w' has been updated and 'b' is about to be, in an epoch where the
\* gradient for 'b' taken at the parameters as they are now would differ
\* from the one held since the start of the epoch.
GradientOfEpochStartWitness ==
  /\ training.pc = "b"
  /\ training.i >= 1
  /\ mse_loss(training.params, training.X, training.y).grad.b
       # training.grad_params_i.b

\* C27: train returns a loss record of length num_epochs whose entry i is
\* the loss at the parameters as they were before the update of epoch i:
\* entry 0 is the loss of the all-zero parameters, and no entry holds the
\* loss of the parameters after the last update, which train returns.
\* While the loop runs the entries of the epochs to come are still 0.
LossBeforeUpdate ==
  training.pc \in {"for", "w", "b", "record", "returned"} =>
    /\ Len(training.loss_vals) = training.num_epochs
    /\ \A k \in 1..training.num_epochs :
         training.loss_vals[k] =
           IF k <= training.i
             THEN mse_loss(Descent(k - 1), training.X, training.y).value
             ELSE QInt(0)
    /\ (training.i >= 1) =>
         training.loss_vals[1] =
           mse_loss(ZeroParams, training.X, training.y).value
    /\ (training.pc = "returned") =>
         /\ training.i = training.num_epochs
         /\ training.params = Descent(training.num_epochs)

\* train has returned after the most epochs with a record of losses that
\* differ from one another, none of them the loss of the parameters
\* returned.
LossBeforeUpdateWitness ==
  /\ training.pc = "returned"
  /\ training.num_epochs = MaxEpochs
  /\ \A k \in 1..MaxEpochs, l \in 1..MaxEpochs :
       training.loss_vals[k] = training.loss_vals[l] => k = l
  /\ \A k \in 1..MaxEpochs :
       training.loss_vals[k] #
         mse_loss(training.params, training.X, training.y).value

====
